---- MODULE Spec2Model ----
(***************************************************************************)
(* Scrape -> hash -> generate-or-reuse -> validate -> persist pipeline of  *)
(* the accessibility simplifier (server/main.py, server/api/routes.py,     *)
(* server/services, server/utils, server/firebase_store.py).               *)
(*                                                                         *)
(* Conventions                                                             *)
(*   - a JSON value is a record tagged by t: null, num, bool, str, list,   *)
(*     dict; a str holds a sequence of whitespace-separated tokens;        *)
(*   - an identifier string (url, mode, language, digest, key) is a        *)
(*     sequence of symbols: [c |-> "x"] for a literal piece of text and    *)
(*     [sha |-> s] for the hex digest of the string or text s (SHA-256 is  *)
(*     taken to be collision free);                                        *)
(*   - a reason or message text is a sequence of string fragments.        *)
(***************************************************************************)
EXTENDS Integers, Sequences, FiniteSets, TLC

(***************************************************************************)
(* JSON values                                                             *)
(***************************************************************************)
JNull == [t |-> "null"]
JNum == [t |-> "num"]
JTrue == [t |-> "bool", b |-> TRUE]
JFalse == [t |-> "bool", b |-> FALSE]
JStr(s) == [t |-> "str", s |-> s]
JList(l) == [t |-> "list", l |-> l]
JDict(d) == [t |-> "dict", d |-> d]
EmptyFcn == [k \in {} |-> JNull]
EmptyDict == JDict(EmptyFcn)

IsDict(x) == x.t = "dict"
IsList(x) == x.t = "list"
Has(obj, k) == k \in DOMAIN obj.d
Get(obj, k) == IF k \in DOMAIN obj.d THEN obj.d[k] ELSE JNull
SetDefault(obj, k, v) == IF k \in DOMAIN obj.d THEN obj ELSE JDict(obj.d @@ (k :> v))

\* Python truthiness of a JSON value (used by `cached.get("output")`).
Truthy(x) ==
  CASE x.t = "null" -> FALSE
    [] x.t = "num" -> TRUE
    [] x.t = "bool" -> x.b
    [] x.t = "str" -> x.s # <<>>
    [] x.t = "list" -> x.l # <<>>
    [] x.t = "dict" -> DOMAIN x.d # {}

RECURSIVE SetToSeq(_)
SetToSeq(S) == IF S = {} THEN <<>> ELSE LET e == CHOOSE e \in S : TRUE IN <<e>> \o SetToSeq(S \ {e})

RECURSIVE FirstMissing(_, _)
\* first key of the list req that obj lacks, "" when none is missing
FirstMissing(req, obj) ==
  IF req = <<>> THEN ""
  ELSE IF ~Has(obj, Head(req)) THEN Head(req) ELSE FirstMissing(Tail(req), obj)

(***************************************************************************)
(* utils/validation.py (same code as main.py 300-392)                      *)
(***************************************************************************)
ensure_dict(x) == IF IsDict(x) THEN x ELSE EmptyDict

ReqEasyRead == <<"mode", "about", "key_points", "sections", "important_links", "warnings", "glossary">>
ReqChecklist == <<"mode", "goal", "requirements", "documents", "fees", "deadlines", "actions", "common_mistakes">>
ReqStepByStep == <<"mode", "goal", "steps", "finish_check">>
ReqStepItem == <<"step", "title", "what_to_do", "where_to_click">>

validate_easy_read(obj) ==
  LET k == FirstMissing(ReqEasyRead, obj) IN
  IF k # "" THEN [ok |-> FALSE, reason |-> <<"easy_read missing key: ", k>>]
  ELSE IF Get(obj, "mode") # JStr(<<"easy_read">>)
    THEN [ok |-> FALSE, reason |-> <<"easy_read.mode must be 'easy_read'">>]
  ELSE IF ~IsList(Get(obj, "key_points"))
    THEN [ok |-> FALSE, reason |-> <<"easy_read.", "key_points", " must be a list">>]
  ELSE IF ~IsList(Get(obj, "sections"))
    THEN [ok |-> FALSE, reason |-> <<"easy_read.", "sections", " must be a list">>]
  ELSE [ok |-> TRUE, reason |-> <<"ok">>]

normalize_checklist(obj0) ==
  LET obj1 == IF Has(obj0, "checklist") /\ IsDict(Get(obj0, "checklist"))
              THEN Get(obj0, "checklist") ELSE obj0
      o2 == SetDefault(obj1, "mode", JStr(<<"checklist">>))
      o3 == SetDefault(o2, "goal", JStr(<<>>))
      o4 == SetDefault(o3, "requirements", JList(<<>>))
      o5 == SetDefault(o4, "documents", JList(<<>>))
      o6 == SetDefault(o5, "fees", JList(<<>>))
      o7 == SetDefault(o6, "deadlines", JList(<<>>))
      o8 == SetDefault(o7, "actions", JList(<<>>))
  IN SetDefault(o8, "common_mistakes", JList(<<>>))

validate_checklist(obj) ==
  LET k == FirstMissing(ReqChecklist, obj) IN
  IF k # "" THEN [ok |-> FALSE, reason |-> <<"checklist missing key: ", k>>]
  ELSE IF Get(obj, "mode") # JStr(<<"checklist">>)
    THEN [ok |-> FALSE, reason |-> <<"checklist.mode must be 'checklist'">>]
  ELSE IF ~IsList(Get(obj, "requirements"))
    THEN [ok |-> FALSE, reason |-> <<"checklist.", "requirements", " must be a list">>]
  ELSE [ok |-> TRUE, reason |-> <<"ok">>]

validate_step_by_step(obj) ==
  LET k == FirstMissing(ReqStepByStep, obj) IN
  IF k # "" THEN [ok |-> FALSE, reason |-> <<"step_by_step missing key: ", k>>]
  ELSE IF Get(obj, "mode") # JStr(<<"step_by_step">>)
    THEN [ok |-> FALSE, reason |-> <<"step_by_step.mode must be 'step_by_step'">>]
  ELSE IF ~IsList(Get(obj, "steps"))
    THEN [ok |-> FALSE, reason |-> <<"step_by_step.", "steps", " must be a list">>]
  ELSE IF Get(obj, "steps").l # <<>>
    THEN LET s0 == Get(obj, "steps").l[1] IN
         IF ~IsDict(s0)
           THEN [ok |-> FALSE, reason |-> <<"step_by_step.steps items must be objects">>]
         ELSE LET m == FirstMissing(ReqStepItem, s0) IN
              IF m # "" THEN [ok |-> FALSE, reason |-> <<"step_by_step.steps[0] missing ", m>>]
              ELSE [ok |-> TRUE, reason |-> <<"ok">>]
  ELSE [ok |-> TRUE, reason |-> <<"ok">>]

\* returns (ok, reason, normalized_obj)
validate_by_mode(mode, x) ==
  LET obj == ensure_dict(x) IN
  IF mode = "easy_read"
    THEN LET o == SetDefault(obj, "mode", JStr(<<"easy_read">>))
             r == validate_easy_read(o)
         IN [ok |-> r.ok, reason |-> r.reason, obj |-> o]
  ELSE IF mode = "checklist"
    THEN LET o == normalize_checklist(obj)
             r == validate_checklist(o)
         IN [ok |-> r.ok, reason |-> r.reason, obj |-> o]
  ELSE IF mode = "step_by_step"
    THEN LET o == SetDefault(obj, "mode", JStr(<<"step_by_step">>))
             r == validate_step_by_step(o)
         IN [ok |-> r.ok, reason |-> r.reason, obj |-> o]
  ELSE [ok |-> FALSE, reason |-> <<"Unknown mode ", mode>>, obj |-> obj]

(***************************************************************************)
(* services/simplification.py: validate_simplification                     *)
(* The argument is whatever parse_json_loose returned; the function does   *)
(* no ensure_dict, so `"summary" not in obj` and obj["summary"] are        *)
(* evaluated on the raw value.  exc names the Python exception that        *)
(* escapes ("none" when the function returns).                             *)
(***************************************************************************)
ReqSummary == <<"about", "key_points", "important_links", "warnings", "glossary">>
ReqIntelligentChecklist == <<"goal", "requirements", "documents", "steps", "common_mistakes">>

VsFail(reason) == [exc |-> "none", ok |-> FALSE, reason |-> reason]
VsRaise == [exc |-> "TypeError", ok |-> FALSE, reason |-> <<>>]

\* `"summary" in obj` for a non-dict obj: substring test on a str,
\* element test on a list, TypeError on None / numbers / booleans.
SummaryIn(obj) ==
  CASE obj.t = "dict" -> Has(obj, "summary")
    [] obj.t = "str" -> \E i \in 1..Len(obj.s) : obj.s[i] = "summary"
    [] obj.t = "list" -> \E i \in 1..Len(obj.l) : obj.l[i] = JStr(<<"summary">>)
    [] OTHER -> FALSE

validate_checklist_section(obj) ==
  IF Has(obj, "checklist") /\ Get(obj, "checklist") # JNull
    THEN LET checklist == Get(obj, "checklist") IN
         IF ~IsDict(checklist) THEN VsFail(<<"'checklist' must be an object or null">>)
         ELSE IF Has(checklist, "has_checklist") /\ Get(checklist, "has_checklist") = JTrue
           THEN LET k == FirstMissing(ReqIntelligentChecklist, checklist) IN
                IF k # "" THEN VsFail(<<"checklist missing required field: ", k>>)
                ELSE IF ~IsList(Get(checklist, "steps"))
                  THEN VsFail(<<"checklist.", "steps", " must be a list">>)
                ELSE IF ~IsList(Get(checklist, "requirements"))
                  THEN VsFail(<<"checklist.", "requirements", " must be a list">>)
                ELSE [exc |-> "none", ok |-> TRUE, reason |-> <<"ok">>]
         ELSE [exc |-> "none", ok |-> TRUE, reason |-> <<"ok">>]
  ELSE [exc |-> "none", ok |-> TRUE, reason |-> <<"ok">>]

validate_simplification(obj) ==
  IF obj.t \in {"null", "num", "bool"} THEN VsRaise
  ELSE IF ~SummaryIn(obj) THEN VsFail(<<"Missing required 'summary' section">>)
  ELSE IF ~IsDict(obj) THEN VsRaise
  ELSE LET summary == Get(obj, "summary") IN
    IF ~IsDict(summary) THEN VsFail(<<"'summary' must be an object">>)
    ELSE LET k == FirstMissing(ReqSummary, summary) IN
      IF k # "" THEN VsFail(<<"summary missing required field: ", k>>)
      ELSE IF ~IsList(Get(summary, "key_points"))
        THEN VsFail(<<"summary.", "key_points", " must be a list">>)
      ELSE IF ~IsList(Get(summary, "important_links"))
        THEN VsFail(<<"summary.", "important_links", " must be a list">>)
      ELSE IF ~IsList(Get(summary, "warnings"))
        THEN VsFail(<<"summary.", "warnings", " must be a list">>)
      ELSE IF ~IsList(Get(summary, "glossary"))
        THEN VsFail(<<"summary.", "glossary", " must be a list">>)
      ELSE validate_checklist_section(obj)

(***************************************************************************)
(* utils/language.py (same code as main.py 204-295)                        *)
(* A token is one whitespace-separated unit of a string value.  The token  *)
(* "CJK" stands for a unit made of characters in U+4E00..U+9FFF, "TAMIL"   *)
(* for one made of characters in U+0B80..U+0BFF, "123" for digits.         *)
(***************************************************************************)
MALAY_HINT_WORDS ==
  {"ini", "untuk", "dan", "yang", "anda", "boleh", "langkah", "dokumen", "permohonan",
   "sila", "perlu", "semak", "senarai", "panduan", "tujuan", "maklumat", "lebih", "lanjut"}

COMMON_EN_WORDS ==
  {"the", "this", "that", "page", "domain", "used", "use", "for", "only", "not", "and",
   "about", "learn", "more", "example", "documentation", "operations"}

RECURSIVE FlattenSeq(_)
RECURSIVE flatten_text(_)
\* the string values of x, joined by " ": the sequence of their tokens
flatten_text(x) ==
  CASE x.t = "str" -> x.s
    [] x.t = "list" -> FlattenSeq(x.l)
    [] x.t = "dict" -> FlattenSeq([i \in 1..Cardinality(DOMAIN x.d) |-> x.d[SetToSeq(DOMAIN x.d)[i]]])
    [] OTHER -> <<>>
FlattenSeq(l) == IF l = <<>> THEN <<>> ELSE flatten_text(Head(l)) \o FlattenSeq(Tail(l))

\* re.sub(r"[^a-zA-Z\s]", " ", tok).lower().split()
TokWords(tok) ==
  CASE tok \in {"CJK", "TAMIL", "123"} -> <<>>
    [] tok = "easy_read" -> <<"easy", "read">>
    [] tok = "step_by_step" -> <<"step", "by", "step">>
    [] OTHER -> <<tok>>

RECURSIVE WordsOf(_)
WordsOf(toks) == IF toks = <<>> THEN <<>> ELSE TokWords(Head(toks)) \o WordsOf(Tail(toks))

Hits(words, S) == Cardinality({i \in 1..Len(words) : words[i] \in S})

\* variant: for "ms" the count of common English words is not looked at
language_ok_ms_any_eight(lang, obj) ==
  IF lang = "en" THEN TRUE
  ELSE LET txt == flatten_text(obj) IN
    IF lang = "zh" THEN \E i \in 1..Len(txt) : txt[i] = "CJK"
    ELSE IF lang = "ta" THEN \E i \in 1..Len(txt) : txt[i] = "TAMIL"
    ELSE IF lang = "ms"
      THEN LET words == WordsOf(txt) IN
           IF words = <<>> THEN FALSE
           ELSE Hits(words, MALAY_HINT_WORDS) >= 2 \/ Len(words) >= 8
    ELSE TRUE
language_ok(lang, obj) ==
  IF lang = "en" THEN TRUE
  ELSE LET txt == flatten_text(obj) IN
    IF lang = "zh" THEN \E i \in 1..Len(txt) : txt[i] = "CJK"
    ELSE IF lang = "ta" THEN \E i \in 1..Len(txt) : txt[i] = "TAMIL"
    ELSE IF lang = "ms"
      THEN LET words == WordsOf(txt) IN
           IF words = <<>> THEN FALSE
           ELSE Hits(words, MALAY_HINT_WORDS) >= 2
                \/ (Hits(words, COMMON_EN_WORDS) <= 3 /\ Len(words) >= 8)
    ELSE TRUE

(***************************************************************************)
(* utils/openai_client.py: parse_json_loose (same code as main.py 186-199) *)
(* A raw model text is described by its shape:                             *)
(*   "json"       the stripped text is one JSON document, val;             *)
(*   "wrapped"    prose around a {...} span that is the JSON object val;   *)
(*   "wrappedbad" prose around a {...} span that is not valid JSON;        *)
(*   "nobrace"    not JSON and no {...} span at all.                       *)
(***************************************************************************)
RawJson(v) == [shape |-> "json", val |-> v]
RawWrapped(v) == [shape |-> "wrapped", val |-> v]
RawWrappedBad == [shape |-> "wrappedbad", val |-> JNull]
RawNoBrace == [shape |-> "nobrace", val |-> JNull]
RawEmpty == [shape |-> "empty", val |-> JNull]

parse_json_loose(raw) ==
  CASE raw.shape = "json" -> [exc |-> "none", val |-> raw.val]
    [] raw.shape = "wrapped" -> [exc |-> "none", val |-> raw.val]
    [] raw.shape = "wrappedbad" -> [exc |-> "JSONDecodeError", val |-> JNull]
    [] OTHER -> [exc |-> "ValueError", val |-> JNull]

(***************************************************************************)
(* Deterministic ids: database/interface.py 98-110, firebase_store.py      *)
(* 123-138                                                                 *)
(***************************************************************************)
Ch(x) == [c |-> x]
S(x) == <<Ch(x)>>
Sep == Ch("|")
NoId == <<>>

sha256_hex(s) == <<[sha |-> s]>>

page_id_for_url(url) == sha256_hex(url)

\* variant: the key leaves the mode out (the unused cache_key of api/routes.py line 72)
KeyString_no_mode(url, mode, language, source_text_hash) ==
  url \o <<Sep>> \o language \o <<Sep>> \o source_text_hash
\* f"{url}|{mode}|{language}|{source_text_hash}"
KeyString(url, mode, language, source_text_hash) ==
  url \o <<Sep>> \o mode \o <<Sep>> \o language \o <<Sep>> \o source_text_hash

simplification_id_for(url, mode, language, source_text_hash) ==
  sha256_hex(KeyString(url, mode, language, source_text_hash))

(***************************************************************************)
(* Document store: MockDocument.set / get (firebase_store.py 31-48)        *)
(* A collection is a function from document ids to documents; a document   *)
(* is a function from field names to values.                               *)
(***************************************************************************)
NoDocs == [id \in {} |-> EmptyFcn]
None == "<None>"

\* variant: on merge the stored fields win over the new ones
MergedDoc_old_wins(data, merge, exists, base) == IF merge /\ exists THEN base @@ data ELSE data
\* the document that set(data, merge) leaves, given what it read before
MergedDoc(data, merge, exists, base) == IF merge /\ exists THEN data @@ base ELSE data

\* variant: an existing document is never replaced
Put_create_only(col, id, doc) == IF id \in DOMAIN col THEN col ELSE (id :> doc) @@ col
Put(col, id, doc) == (id :> doc) @@ col

\* save_page: the document written for a scrape
PageDoc(url, page, session_id, now) ==
  [url |-> url, session_id |-> session_id, status |-> "ready",
   meta |-> page.meta, blocks |-> page.blocks, links |-> page.links, images |-> page.images,
   source_text |-> page.source_text, source_text_hash |-> page.source_text_hash,
   updated_at |-> now]

\* save_simplification: the document written for one generated output
SimplificationDoc(url, page_id, source_text_hash, mode, language, output, model, session_id, now) ==
  [url |-> url, page_id |-> page_id, source_text_hash |-> source_text_hash,
   mode |-> mode, language |-> language, session_id |-> session_id,
   llm |-> [provider |-> "openai", model |-> model],
   output |-> output, status |-> "success", error |-> None, updated_at |-> now]

\* variant: the stored record is never considered usable
CacheUsable_never(col, sid) == sid \in DOMAIN col /\ "output" \in DOMAIN col[sid] /\ FALSE
\* `cached and cached.get("output")` of simplify, cached = get_simplification(...)
CacheUsable(col, sid) ==
  /\ sid \in DOMAIN col
  /\ "output" \in DOMAIN col[sid]
  /\ Truthy(col[sid].output)

(***************************************************************************)
(* Scraped content: main.py 397-489, services/scraping.py 20-127           *)
(***************************************************************************)
max_chars == 24000
max_list_items == 12
max_table_headers == 8

Heading(level, text) == [type |-> "heading", level |-> level, text |-> text]
Paragraph(text) == [type |-> "paragraph", text |-> text]
ListBlock(items) == [type |-> "list", items |-> items]
TableBlock(headers, rows) == [type |-> "table", headers |-> headers, rows |-> rows]
Quote(text) == [type |-> "quote", text |-> text]

Min(a, b) == IF a < b THEN a ELSE b
Max(a, b) == IF a > b THEN a ELSE b
Prefix(l, n) == SubSeq(l, 1, Min(Len(l), n))

RECURSIVE Repeat(_, _)
Repeat(x, n) == IF n <= 0 THEN <<>> ELSE <<x>> \o Repeat(x, n - 1)

RECURSIVE ItemLines(_)
ItemLines(items) ==
  IF items = <<>> THEN <<>>
  ELSE (IF Head(items) # <<>> THEN << <<"-">> \o Head(items) >> ELSE <<>>) \o ItemLines(Tail(items))

RECURSIVE JoinPipe(_)
JoinPipe(hs) ==
  IF hs = <<>> THEN <<>>
  ELSE IF Len(hs) = 1 THEN Head(hs) ELSE Head(hs) \o <<"|">> \o JoinPipe(Tail(hs))

\* the lines one block contributes to the linearized text
BlockLines(b) ==
  CASE b.type = "heading" ->
         LET lvl == IF b.level = 0 THEN 2 ELSE b.level IN  \* level 0 stands for None
         IF b.text # <<>> THEN << Repeat("#", Min(6, Max(1, lvl))) \o b.text >> ELSE <<>>
    [] b.type = "paragraph" -> IF b.text # <<>> THEN << b.text >> ELSE <<>>
    [] b.type = "list" -> ItemLines(Prefix(b.items, max_list_items))
    [] b.type = "table" ->
         IF b.headers # <<>> THEN << <<"Table:">> \o JoinPipe(Prefix(b.headers, max_table_headers)) >>
         ELSE <<>>
    [] b.type = "quote" -> IF b.text # <<>> THEN << <<">">> \o b.text >> ELSE <<>>
    [] OTHER -> <<>>

RECURSIVE SumLen(_)
SumLen(lines) == IF lines = <<>> THEN 0 ELSE Len(Head(lines)) + SumLen(Tail(lines))

RECURSIVE RenderBlocks(_, _)
\* the for loop of blocks_to_text: stop once the rendered lines exceed the budget
RenderBlocks(blocks, out) ==
  IF blocks = <<>> THEN out
  ELSE LET out2 == out \o BlockLines(Head(blocks)) IN
       IF SumLen(out2) > max_chars THEN out2 ELSE RenderBlocks(Tail(blocks), out2)

RECURSIVE TruncateLines(_, _)
\* "\n".join(out)[:max_chars], a line counted as its tokens plus the newline
TruncateLines(lines, budget) ==
  IF lines = <<>> \/ budget <= 0 THEN <<>>
  ELSE IF Len(Head(lines)) >= budget THEN << Prefix(Head(lines), budget) >>
  ELSE <<Head(lines)>> \o TruncateLines(Tail(lines), budget - Len(Head(lines)) - 1)

blocks_to_text(blocks) == TruncateLines(RenderBlocks(blocks, <<>>), max_chars)

\* variant: the hash also covers the page title
Bundle_hash_with_title(url, content) ==
  LET text == blocks_to_text(content.blocks) IN
  [page_id |-> page_id_for_url(url), url |-> url, meta |-> content.meta,
   blocks |-> content.blocks, links |-> content.links, images |-> content.images,
   source_text |-> text, source_text_hash |-> sha256_hex(<<content.meta.title>> \o text)]
\* what extraction yields for a fetched document, with the text and hash
\* scrape_url derives from it
Bundle(url, content) ==
  LET text == blocks_to_text(content.blocks) IN
  [page_id |-> page_id_for_url(url), url |-> url, meta |-> content.meta,
   blocks |-> content.blocks, links |-> content.links, images |-> content.images,
   source_text |-> text, source_text_hash |-> sha256_hex(text)]

NoPage == [page_id |-> NoId]

(***************************************************************************)
(* Prompts: main.py 494-597, services/simplification.py 10-100             *)
(***************************************************************************)
max_links == 20
max_label == 80

Link(scheme, href, text) == [scheme |-> scheme, href |-> href, text |-> text]

RECURSIVE PickLinks(_, _)
PickLinks(links, cleaned) ==
  IF links = <<>> \/ Len(cleaned) >= max_links THEN cleaned
  ELSE LET l == Head(links) IN
       IF l.href = <<>> \/ l.scheme \in {"mailto", "javascript"}
         THEN PickLinks(Tail(links), cleaned)
       ELSE PickLinks(Tail(links),
              Append(cleaned, [label |-> Prefix(IF l.text # <<>> THEN l.text ELSE l.href, max_label),
                               url |-> l.href]))

pick_important_links(links) == PickLinks(links, <<>>)

\* the two messages both prompt builders return; schema names the skeleton
prompt_for_mode(app, mode, title, source_text, links, language) ==
  << [role |-> "system", kind |-> "instructions", language |-> language],
     [role |-> "user", kind |-> "context", schema |-> mode, title |-> title,
      source_text |-> source_text, links |-> links, language |-> language] >>

\* the two messages appended before a retry
Corrective(raw, last_reason, language) ==
  << [role |-> "assistant", kind |-> "previous", content |-> raw],
     [role |-> "user", kind |-> "corrective", problems |-> last_reason, language |-> language] >>

(***************************************************************************)
(* Model parameters                                                        *)
(***************************************************************************)
DEFAULT_MODEL == "gpt-3.5-turbo-0125"
\* model identifiers the completion API may report back
ReportedModels == {DEFAULT_MODEL, "gpt-4o-mini"}
get_openai_model == DEFAULT_MODEL

MainModes == <<"easy_read", "checklist", "step_by_step">>
Languages == {"en", "zh", "ms", "ta"}
Req == {"r1", "r2"}

\* bounds
NumRequests == 2
MaxRetriesBound == 2
DefaultRetries == 1

(***************************************************************************)
(* Inputs: model outputs and web documents                                 *)
(***************************************************************************)
Txt(lang) ==
  CASE lang = "zh" -> <<"CJK">>
    [] lang = "ta" -> <<"TAMIL">>
    [] lang = "ms" -> <<"ini", "panduan", "untuk", "anda">>
    [] OTHER -> <<"the", "page">>

Section(txt) == JDict("heading" :> JStr(txt) @@ "bullets" :> JList(<<JStr(txt)>>))
StepItem(txt) ==
  JDict("step" :> JNum @@ "title" :> JStr(txt) @@ "what_to_do" :> JStr(txt) @@ "where_to_click" :> JStr(txt))

EasyRead(txt) ==
  JDict("mode" :> JStr(<<"easy_read">>) @@ "about" :> JStr(txt) @@ "key_points" :> JList(<<JStr(txt)>>)
        @@ "sections" :> JList(<<Section(txt)>>) @@ "important_links" :> JList(<<>>)
        @@ "warnings" :> JList(<<>>) @@ "glossary" :> JList(<<>>))

ChecklistBody(txt) ==
  "goal" :> JStr(txt) @@ "requirements" :> JList(<<>>) @@ "documents" :> JList(<<>>)
  @@ "fees" :> JList(<<>>) @@ "deadlines" :> JList(<<>>) @@ "actions" :> JList(<<>>)
  @@ "common_mistakes" :> JList(<<JStr(txt)>>)

Checklist(txt) == JDict("mode" :> JStr(<<"checklist">>) @@ ChecklistBody(txt))
NestedChecklist(txt) == JDict("checklist" :> JDict(ChecklistBody(txt)))

StepByStep(txt) ==
  JDict("mode" :> JStr(<<"step_by_step">>) @@ "goal" :> JStr(txt)
        @@ "steps" :> JList(<<StepItem(txt)>>) @@ "finish_check" :> JList(<<>>))

SummaryBody(txt) ==
  JDict("about" :> JStr(txt) @@ "key_points" :> JList(<<JStr(txt)>>) @@ "important_links" :> JList(<<>>)
        @@ "warnings" :> JList(<<>>) @@ "glossary" :> JList(<<>>))

Intelligent(txt) == JDict("summary" :> SummaryBody(txt) @@ "checklist" :> JNull)
IntelligentBadChecklist(txt) ==
  JDict("summary" :> SummaryBody(txt) @@ "checklist" :> JDict("has_checklist" :> JTrue @@ "goal" :> JStr(txt)))

\* {"mode": "<mode>"}: an object with none of the required fields
ModeOnly(mode) == JDict("mode" :> JStr(<<mode>>))

Good(mode, txt) ==
  CASE mode = "easy_read" -> EasyRead(txt)
    [] mode = "checklist" -> Checklist(txt)
    [] mode = "step_by_step" -> StepByStep(txt)
    [] OTHER -> Intelligent(txt)

\* wrong container type for a list-typed field of the mode
BadType(mode, txt) ==
  CASE mode = "easy_read" -> JDict([EasyRead(txt).d EXCEPT !["sections"] = JStr(txt)])
    [] mode = "checklist" -> JDict([Checklist(txt).d EXCEPT !["requirements"] = JStr(txt)])
    [] mode = "step_by_step" -> JDict([StepByStep(txt).d EXCEPT !["steps"] = JList(<<JStr(txt)>>)])
    [] OTHER -> IntelligentBadChecklist(txt)

\* texts that do not parse to an object
NonObjectRaws ==
  {RawNoBrace, RawWrappedBad, RawJson(JNull), RawJson(JNum), RawJson(JStr(<<"summary">>)),
   RawJson(JList(<<JStr(<<"abc">>)>>))}

\* the texts tried on the generation loop when it is exercised alone
LoopRaws(mode) ==
  NonObjectRaws
  \cup {RawJson(Good(mode, Txt("en"))), RawJson(Good(mode, Txt("zh"))), RawWrapped(Good(mode, Txt("ms"))),
        RawJson(ModeOnly(mode)), RawJson(BadType(mode, Txt("en")))}
  \cup (IF mode = "checklist" THEN {RawJson(NestedChecklist(Txt("en")))} ELSE {})

\* the texts tried inside a request
RequestRaws(mode, lang) ==
  {RawJson(Good(mode, Txt(lang))), RawJson(ModeOnly(mode))}
  \cup (IF mode = "intelligent" THEN {RawJson(JNull)} ELSE {})

ContentA ==
  [meta |-> [title |-> <<"Example", "Domain">>],
   blocks |-> <<Heading(1, <<"Example", "Domain">>), Paragraph(<<"the", "page">>)>>,
   links |-> <<>>, images |-> <<>>]
ContentB ==
  [meta |-> [title |-> <<"Example", "Domain">>],
   blocks |-> <<Heading(0, <<"Forms">>), ListBlock(<<<<"apply">>, <<>>, <<"pay">>>>),
                TableBlock(<<<<"fee">>, <<"date">>>>, <<>>), Quote(<<"note">>)>>,
   links |-> <<Link("https", S("https://iana.example/"), <<"more">>), Link("mailto", S("mailto:x"), <<>>)>>,
   images |-> <<>>]
Contents == {ContentA, ContentB}

UrlA == S("https://a.example/")
UrlB == S("https://b.example/x")
Urls == {UrlA, UrlB}

(***************************************************************************)
(* Hostname guard: services/scraper.py 20-57                               *)
(* An address is the text getaddrinfo returned, whether ipaddress parses   *)
(* it, and the properties of ipaddress that hold for it.                   *)
(***************************************************************************)
BLOCKED_HOSTS == {"localhost", "127.0.0.1", "::1"}

\* hostname.lower()
Lower(h) ==
  CASE h = "LOCALHOST" -> "localhost"
    [] h = "LocalHost" -> "localhost"
    [] h = "A.Example" -> "a.example"
    [] OTHER -> h

Addr(text, parses, flags) == [text |-> text, parses |-> parses, flags |-> flags]

is_private_ip(ip) ==
  IF ip.parses
    THEN \/ "is_private" \in ip.flags
         \/ "is_loopback" \in ip.flags
         \/ "is_link_local" \in ip.flags
         \/ "is_reserved" \in ip.flags
         \/ "is_multicast" \in ip.flags
         \/ "is_unspecified" \in ip.flags
  ELSE TRUE

Accepted == [raised |-> FALSE, status_code |-> 0, detail |-> ""]
Rejected(detail) == [raised |-> TRUE, status_code |-> 400, detail |-> detail]

\* variant: a host is rejected only when every resolved address is blocked
assert_public_hostname_all(hostname, dns) ==
  IF Lower(hostname) \in BLOCKED_HOSTS THEN Rejected("URL hostname is not allowed")
  ELSE IF dns.gaierror THEN Rejected("DNS lookup failed")
  ELSE IF dns.ips = {} THEN Rejected("DNS lookup failed")
  ELSE IF \A ip \in dns.ips : is_private_ip(ip) THEN Rejected("URL resolves to a private/blocked IP")
  ELSE Accepted
\* dns is what socket.getaddrinfo(hostname, None) does: it raises gaierror or returns
\* the addresses ips
assert_public_hostname(hostname, dns) ==
  IF Lower(hostname) \in BLOCKED_HOSTS THEN Rejected("URL hostname is not allowed")
  ELSE IF dns.gaierror THEN Rejected("DNS lookup failed")
  ELSE IF dns.ips = {} THEN Rejected("DNS lookup failed")
  ELSE IF \E ip \in dns.ips : is_private_ip(ip) THEN Rejected("URL resolves to a private/blocked IP")
  ELSE Accepted

Hostnames == {"localhost", "LOCALHOST", "LocalHost", "127.0.0.1", "::1", "a.example", "A.Example", "intranet.corp"}

Addresses ==
  {Addr("93.184.216.34", TRUE, {}), Addr("2606:2800:220:1::1", TRUE, {}),
   Addr("10.0.0.5", TRUE, {"is_private"}), Addr("127.0.0.1", TRUE, {"is_private", "is_loopback"}),
   Addr("169.254.169.254", TRUE, {"is_private", "is_link_local"}),
   Addr("240.0.0.1", TRUE, {"is_reserved"}), Addr("224.0.0.1", TRUE, {"is_multicast"}),
   Addr("0.0.0.0", TRUE, {"is_private", "is_unspecified"}), Addr("fe80::1%eth0z", FALSE, {})}

MaxResolved == 2

Resolutions ==
  {[gaierror |-> TRUE, ips |-> {}]}
  \cup {[gaierror |-> FALSE, ips |-> ips] : ips \in {x \in SUBSET Addresses : Cardinality(x) <= MaxResolved}}

(***************************************************************************)
(* main.py: context handed to the chat model (_extract_best_context)       *)
(* The texts of this section are sequences of characters.                  *)
(***************************************************************************)
NoText == [some |-> FALSE, v |-> <<>>]
Some(s) == [some |-> TRUE, v |-> s]

Whitespace == {" ", "\t"}

RECURSIVE LStrip(_)
LStrip(s) == IF s # <<>> /\ Head(s) \in Whitespace THEN LStrip(Tail(s)) ELSE s
RECURSIVE RStrip(_)
RStrip(s) == IF s # <<>> /\ s[Len(s)] \in Whitespace THEN RStrip(SubSeq(s, 1, Len(s) - 1)) ELSE s
\* str.strip()
Strip(s) == RStrip(LStrip(s))

LowerChar(c) ==
  CASE c = "F" -> "f" [] c = "E" -> "e" [] c = "S" -> "s" [] c = "C" -> "c" [] OTHER -> c
\* str.lower()
LowerChars(s) == [i \in 1..Len(s) |-> LowerChar(s[i])]

section_text_chars == 4000
max_bullets == 12
source_text_chars == 8000

\* str(v or "") of a JSON value
StrOrEmpty(v) ==
  IF ~Truthy(v) THEN <<>>
  ELSE CASE v.t = "str" -> v.s
         [] v.t = "num" -> <<"1">>
         [] v.t = "bool" -> <<"T", "r", "u", "e">>
         [] OTHER -> <<"repr">>

\* `heading and heading.strip().lower() == section_id.strip().lower()` for a dict entry
HeadingMatches(entry, section_id) ==
  /\ IsDict(entry)
  /\ LET heading == StrOrEmpty(Get(entry, "heading")) IN
       /\ heading # <<>>
       /\ LowerChars(Strip(heading)) = LowerChars(Strip(section_id))

\* the entries of simpl_output["sections"] the scan stops at, by position
MatchingSections(section_id, simpl_output) ==
  IF /\ section_id.some /\ section_id.v # <<>>
     /\ IsDict(simpl_output)
     /\ IsList(Get(simpl_output, "sections"))
  THEN LET sections == Get(simpl_output, "sections").l IN
       {i \in 1..Len(sections) : HeadingMatches(sections[i], section_id.v)}
  ELSE {}

NonBlank(text) == text.some /\ Strip(text.v) # <<>>

SectionTextContext(mode, language, section_id, section_text) ==
  [mode |-> mode, language |-> language, focus |-> "section_text",
   section_text |-> Prefix(Strip(section_text.v), section_text_chars)]
  @@ (IF section_id.some /\ section_id.v # <<>> THEN [section_id |-> section_id.v] ELSE <<>>)

SectionIdContext(mode, language, section_id, entry) ==
  LET bullets == IF Truthy(Get(entry, "bullets")) THEN Get(entry, "bullets") ELSE JList(<<>>) IN
  [mode |-> mode, language |-> language, focus |-> "section_id",
   section_id |-> section_id.v,
   section_heading |-> StrOrEmpty(Get(entry, "heading")),
   section_bullets |-> IF IsList(bullets) THEN JList(Prefix(bullets.l, max_bullets)) ELSE bullets]

PageFallbackContext(mode, language, simpl_output, source_text) ==
  [mode |-> mode, language |-> language, focus |-> "page_fallback",
   simplified |-> simpl_output, source_text |-> Prefix(source_text, source_text_chars)]

\* variant: a matching section is looked for before the section text
extract_best_context_id_first(mode, language, section_id, section_text, simpl_output, source_text) ==
  LET hits == MatchingSections(section_id, simpl_output) IN
  IF hits # {}
    THEN SectionIdContext(mode, language, section_id,
           Get(simpl_output, "sections").l[CHOOSE i \in hits : \A j \in hits : i <= j])
  ELSE IF NonBlank(section_text)
    THEN SectionTextContext(mode, language, section_id, section_text)
  ELSE PageFallbackContext(mode, language, simpl_output, source_text)

extract_best_context(mode, language, section_id, section_text, simpl_output, source_text) ==
  LET hits == MatchingSections(section_id, simpl_output) IN
  IF NonBlank(section_text)
    THEN SectionTextContext(mode, language, section_id, section_text)
  ELSE IF hits # {}
    THEN SectionIdContext(mode, language, section_id,
           Get(simpl_output, "sections").l[CHOOSE i \in hits : \A j \in hits : i <= j])
  ELSE PageFallbackContext(mode, language, simpl_output, source_text)


(***************************************************************************)
(* services/scraper.py: extract_blocks_in_order                            *)
(* The candidates are the block-level elements under the root in document  *)
(* order, each with what the helpers read off it: its cleaned text, the    *)
(* texts of its li descendants, the number of its list ancestors, its      *)
(* header cells and its rows.                                              *)
(***************************************************************************)
max_blocks == 800
code_chars == 4000

Element(name, text, items, lists_above, headers, rows) ==
  [name |-> name, text |-> text, items |-> items, lists_above |-> lists_above,
   headers |-> headers, rows |-> rows]

\* ContentBlock: level 0, depth -1 and an empty text, items, headers or rows stand for None;
\* pos is the position of the element the block was made from
ContentBlock(type, level, depth, text, items, headers, rows, pos) ==
  [type |-> type, level |-> level, depth |-> depth, text |-> text, items |-> items,
   headers |-> headers, rows |-> rows, pos |-> pos]

HeadingLevel(name) ==
  CASE name = "h1" -> 1 [] name = "h2" -> 2 [] name = "h3" -> 3 [] name = "h4" -> 4
    [] name = "h5" -> 5 [] name = "h6" -> 6 [] OTHER -> 0

\* the blocks one candidate element appends: none or one
ElementBlocks(el, pos) ==
  CASE HeadingLevel(el.name) # 0 ->
         IF el.text # <<>>
           THEN <<ContentBlock("heading", HeadingLevel(el.name), -1, el.text, <<>>, <<>>, <<>>, pos)>>
         ELSE <<>>
    [] el.name = "p" ->
         IF el.text # <<>> THEN <<ContentBlock("paragraph", 0, -1, el.text, <<>>, <<>>, <<>>, pos)>>
         ELSE <<>>
    [] el.name \in {"ul", "ol"} ->
         IF el.items # <<>> THEN <<ContentBlock("list", 0, el.lists_above, <<>>, el.items, <<>>, <<>>, pos)>>
         ELSE <<>>
    [] el.name = "table" ->
         IF el.headers # <<>> \/ el.rows # <<>>
           THEN <<ContentBlock("table", 0, -1, <<>>, <<>>, el.headers, el.rows, pos)>>
         ELSE <<>>
    [] el.name = "blockquote" ->
         IF el.text # <<>> THEN <<ContentBlock("quote", 0, -1, el.text, <<>>, <<>>, <<>>, pos)>>
         ELSE <<>>
    [] el.name \in {"pre", "code"} ->
         IF el.text # <<>>
           THEN <<ContentBlock("code", 0, -1, Prefix(el.text, code_chars), <<>>, <<>>, <<>>, pos)>>
         ELSE <<>>
    [] el.name = "hr" -> <<ContentBlock("hr", 0, -1, <<>>, <<>>, <<>>, <<>>, pos)>>
    [] OTHER -> <<>>

RECURSIVE EmitBlocks(_, _, _)
\* the loop over the candidates, from position pos on
EmitBlocks(candidates, pos, blocks) ==
  IF pos > Len(candidates) \/ Len(blocks) >= max_blocks THEN blocks
  ELSE EmitBlocks(candidates, pos + 1, blocks \o ElementBlocks(candidates[pos], pos))

\* variant: the signature tells blocks of different elements apart
Sig_with_pos(b) == <<b.type, b.level, b.text, b.items, b.pos>>
\* sig = (b.type, b.level, b.text, tuple(b.items) if b.items else None)
Sig(b) == <<b.type, b.level, b.text, b.items>>

RECURSIVE Compact(_, _, _)
\* the pass that drops a block whose signature equals that of the block kept last
Compact(blocks, compacted, last_sig) ==
  IF blocks = <<>> THEN compacted
  ELSE IF Sig(Head(blocks)) = last_sig THEN Compact(Tail(blocks), compacted, last_sig)
  ELSE Compact(Tail(blocks), Append(compacted, Head(blocks)), Sig(Head(blocks)))

extract_blocks_in_order(candidates) == Compact(EmitBlocks(candidates, 1, <<>>), <<>>, <<>>)


(***************************************************************************)
(* services/scraper.py: extract_links_and_images                           *)
(* A URL reference is its parts: scheme, network authority, path segments  *)
(* (rooted when the path starts with "/") and fragment; an absent part is  *)
(* empty.                                                                  *)
(***************************************************************************)
scraper_max_links == 600
max_images == 300

UrlRef(scheme, netloc, rooted, path, fragment) ==
  [scheme |-> scheme, netloc |-> netloc, rooted |-> rooted, path |-> path, fragment |-> fragment]
NoRef == UrlRef("", "", FALSE, <<>>, "")

\* schemes urljoin resolves relative references for
uses_relative == {"http", "https", "ftp", "file"}

\* urllib.parse.urljoin(base, ref)
urljoin(base, ref) ==
  IF ref = NoRef THEN base
  ELSE IF ref.scheme # "" /\ (ref.scheme # base.scheme \/ ref.scheme \notin uses_relative) THEN ref
  ELSE IF ref.netloc # "" THEN [ref EXCEPT !.scheme = base.scheme]
  ELSE IF ref.path = <<>> /\ ~ref.rooted THEN [base EXCEPT !.fragment = ref.fragment]
  ELSE IF ref.rooted THEN [ref EXCEPT !.scheme = base.scheme, !.netloc = base.netloc]
  ELSE UrlRef(base.scheme, base.netloc, TRUE,
              (IF base.path = <<>> THEN <<>> ELSE SubSeq(base.path, 1, Len(base.path) - 1)) \o ref.path,
              ref.fragment)

\* abs_href.startswith(("mailto:", "tel:", "javascript:", "#"))
SkippedPrefix(u) ==
  \/ u.scheme \in {"mailto", "tel", "javascript"}
  \/ u.scheme = "" /\ u.netloc = "" /\ ~u.rooted /\ u.path = <<>> /\ u.fragment # ""

\* _is_internal_link(base_url, href)
is_internal_link(base_url, href) == IF href.netloc = "" THEN TRUE ELSE href.netloc = base_url.netloc

\* the links and images of the a and img elements, in document order; pos is the position
\* of the element an entry was made from
extract_links_and_images(anchors, imgs, base_url) ==
  LET link(i) == LET abs_href == urljoin(base_url, anchors[i].href) IN
                 [href |-> abs_href, text |-> anchors[i].text,
                  is_internal |-> is_internal_link(base_url, abs_href), pos |-> i]
      src(g) == IF g.src # NoRef THEN g.src ELSE IF g.data_src # NoRef THEN g.data_src ELSE g.data_lazy_src
      image(i) == [src |-> urljoin(base_url, src(imgs[i])), alt |-> imgs[i].alt, pos |-> i]
  IN [links |-> Prefix(SelectSeq([i \in 1..Len(anchors) |-> link(i)],
                                 LAMBDA l : anchors[l.pos].href # NoRef /\ ~SkippedPrefix(l.href)),
                       scraper_max_links),
      images |-> Prefix(SelectSeq([i \in 1..Len(imgs) |-> image(i)],
                                  LAMBDA g : src(imgs[g.pos]) # NoRef),
                        max_images)]


(***************************************************************************)
(* State                                                                   *)
(***************************************************************************)
VARIABLES
  deployment, \* which application is deployed: "main" (main.py) or "routes" (api/routes.py)
  pages,     \* collection "pages": page_id -> document
  simps,     \* collection "simplifications": simplification_id -> document
  req,       \* per request slot: the handler's position and locals
  started,   \* number of requests started so far
  served,    \* history: tuples a completed /simplify response has carried, with the id it returned
  origin,    \* history: for each stored simplification, the request that wrote it last and
             \* the loop exit its output came from
  lastPage,  \* history: for each url, the bundle of the most recent page write, the number
             \* of page writes so far and the text hash of the write before
  probe      \* the arguments and results of a function applied on its own

vars == <<probe, deployment, pages, simps, req, started, served, origin, lastPage>>

NoOut == [path |-> "none"]
NoProbe == [fn |-> "none"]
NoPend == [col |-> "none"]
NoIds == [m \in {} |-> NoId]
NoWrite == [page |-> NoPage, writes |-> 0, prev_hash |-> NoId]
NoCount == [m \in {} |-> 0]

IdleFrame ==
  [pc |-> "idle", kind |-> "none", app |-> "none", url |-> NoId, mode |-> "none", language |-> "en",
   force_regen |-> FALSE, session_id |-> None, max_retries |-> 0, seq |-> 0,
   page |-> NoPage, wanted |-> <<>>, cur |-> "none",
   outputs |-> EmptyFcn, simpl_ids |-> NoIds, model_used_any |-> get_openai_model,
   attempt |-> 0, messages |-> <<>>, last_raw |-> RawEmpty, last_reason |-> <<>>, last_model |-> "",
   ok_schema |-> FALSE, ok_lang |-> FALSE, obj_norm |-> JNull,
   out |-> NoOut, pend |-> NoPend, status |-> 0, exc |-> "none",
   target |-> "", guarded |-> {}, hops |-> {}, redirects |-> 0, fetch_status |-> 0,
   page_id |-> NoId, simplification_id |-> NoId, section_id |-> NoText, section_text |-> NoText,
   message |-> <<>>, history |-> <<>>, simpl_output |-> JNull, simpl_id |-> NoId,
   chat_messages |-> <<>>, answer |-> <<>>,
   calls |-> 0, loops |-> NoCount, reads |-> 0, prior |-> NoIds, wrote |-> EmptyFcn]

Init ==
  /\ deployment \in {"main", "routes"}
  /\ pages = NoDocs
  /\ simps = NoDocs
  /\ req = [r \in Req |-> IdleFrame]
  /\ started = 0
  /\ served = {}
  /\ origin = [id \in {} |-> [path |-> "none", by |-> "none"]]
  /\ lastPage = [u \in {} |-> NoWrite]
  /\ probe = NoProbe

Free(r) == req[r].pc \in {"idle", "done", "failed"}

(***************************************************************************)
(* Request entry                                                           *)
(***************************************************************************)
\* POST /scrap {url}
StartScrap(r, urls) ==
  /\ started < NumRequests
  /\ \E u \in urls :
       req' = [req EXCEPT ![r] = [IdleFrame EXCEPT !.pc = "scrape", !.kind = "scrap", !.app = deployment,
                                                   !.url = u, !.seq = started + 1]]
  /\ started' = started + 1
  /\ UNCHANGED <<probe, deployment, pages, simps, served, origin, lastPage>>

\* POST /simplify {url, mode, language, session_id, force_regen}
\* app "main" is main.py (three modes or "all"), app "routes" is api/routes.py
StartSimplify(r, urls, modes, langs, forces, sessions) ==
  /\ started < NumRequests
  /\ \E u \in urls, l \in langs, f \in forces, sn \in sessions :
     \E m \in IF deployment = "routes" THEN {"intelligent"} ELSE modes :
       req' = [req EXCEPT ![r] =
                 [IdleFrame EXCEPT !.pc = "scrape", !.kind = "simplify", !.app = deployment, !.url = u,
                                   !.mode = m,
                                   !.language = l, !.force_regen = f, !.session_id = sn,
                                   !.max_retries = DefaultRetries, !.seq = started + 1]]
  /\ started' = started + 1
  /\ UNCHANGED <<probe, deployment, pages, simps, served, origin, lastPage>>

(***************************************************************************)
(* scrape_url                                                              *)
(***************************************************************************)
\* urlparse(url).hostname of the urls requests carry
HostOf(url) == IF url = UrlA THEN "a.example" ELSE "b.example"

\* a host a response can redirect to: the link-local metadata address
MetadataHost == "169.254.169.254"

\* statuses fetch_and_parse_html raises with: 413 body over max_bytes, 415 content type
\* is not text/html, 502 transport error or non-2xx status, 504 timeout
FetchErrors == {413, 415, 502, 504}

MaxRedirects == 2

\* variant: a rejected url still leaves a placeholder page record (as get_or_create_page writes)
GuardRejects_placeholder(r) ==
  /\ req[r].pc = "scrape"
  /\ req' = [req EXCEPT ![r].pc = "failed", ![r].status = 400, ![r].exc = "HTTPException"]
  /\ pages' = Put(pages, page_id_for_url(req[r].url),
                  [url |-> req[r].url, session_id |-> req[r].session_id, status |-> "placeholder",
                   updated_at |-> req[r].seq])
  /\ UNCHANGED <<probe, deployment, simps, started, served, origin, lastPage>>
\* assert_public_hostname raises: nothing has been fetched or written
GuardRejects(r) ==
  /\ req[r].pc = "scrape"
  /\ req' = [req EXCEPT ![r].pc = "failed", ![r].status = 400, ![r].exc = "HTTPException"]
  /\ UNCHANGED <<probe, deployment, pages, simps, started, served, origin, lastPage>>

\* assert_public_hostname(host) returns for the host of the requested url;
\* fetch_and_parse_html(url) is next
GuardAccepts(r) ==
  /\ req[r].pc = "scrape"
  /\ req' = [req EXCEPT ![r].pc = "fetch", ![r].target = HostOf(req[r].url),
                        ![r].guarded = {HostOf(req[r].url)}]
  /\ UNCHANGED <<probe, deployment, pages, simps, started, served, origin, lastPage>>

\* SESSION.get(url, allow_redirects=True): the request to the current target is sent and
\* answered by a redirect, which the session follows by itself
Redirected(r, hosts) ==
  /\ req[r].pc = "fetch"
  /\ req[r].redirects < MaxRedirects
  /\ \E h \in hosts :
       req' = [req EXCEPT ![r].hops = req[r].hops \cup {req[r].target}, ![r].target = h,
                          ![r].redirects = req[r].redirects + 1]
  /\ UNCHANGED <<probe, deployment, pages, simps, started, served, origin, lastPage>>

\* the request to the current target is sent and fetch_and_parse_html raises;
\* scrape_url catches every Exception and raises a 502 in its place
FetchFails(r, statuses) ==
  /\ req[r].pc = "fetch"
  /\ \E k \in statuses :
       req' = [req EXCEPT ![r].pc = "failed", ![r].status = 502, ![r].exc = "HTTPException",
                          ![r].fetch_status = k, ![r].hops = req[r].hops \cup {req[r].target}]
  /\ UNCHANGED <<probe, deployment, pages, simps, started, served, origin, lastPage>>

\* the request to the current target is sent and answered with an HTML page:
\* extraction + linearization + hash, up to the call of save_page
Scrape(r, contents) ==
  /\ req[r].pc = "fetch"
  /\ \E c \in contents :
       LET page == Bundle(req[r].url, c) IN
       req' = [req EXCEPT ![r].page = page,
                          ![r].hops = req[r].hops \cup {req[r].target},
                          ![r].pend = [col |-> "pages", id |-> page_id_for_url(req[r].url),
                                       data |-> PageDoc(req[r].url, page, req[r].session_id, req[r].seq),
                                       exists |-> FALSE, base |-> EmptyFcn],
                          ![r].pc = "set_read"]
  /\ UNCHANGED <<probe, deployment, pages, simps, started, served, origin, lastPage>>

\* the store raises in document(id).set(...): save_page and save_simplification let the
\* exception through, and so do scrape_url and the handlers
StoreFails(r) ==
  /\ req[r].pc = "set_read"
  /\ req' = [req EXCEPT ![r].pc = "failed", ![r].status = 500, ![r].exc = "StoreError"]
  /\ UNCHANGED <<probe, deployment, pages, simps, started, served, origin, lastPage>>

Coll(name) == IF name = "pages" THEN pages ELSE simps

\* document(id).set(data, merge=True), first half: look the document up
SetRead(r) ==
  /\ req[r].pc = "set_read"
  /\ LET p == req[r].pend
         col == Coll(p.col)
     IN req' = [req EXCEPT ![r].pend.exists = (p.id \in DOMAIN col),
                           ![r].pend.base = IF p.id \in DOMAIN col THEN col[p.id] ELSE EmptyFcn,
                           ![r].pc = "set_write"]
  /\ UNCHANGED <<probe, deployment, pages, simps, started, served, origin, lastPage>>

(***************************************************************************)
(* Generation-and-validation loop: main.py 600-662                         *)
(* (generate_mode_output_validated) and services/simplification.py         *)
(* 152-223 (generate_simplification)                                       *)
(***************************************************************************)
ReasonLang(ok_lang, language) ==
  IF ok_lang THEN <<"ok">> ELSE <<"Wrong language for '", language, "'">>

\* the body of one iteration after the model call returned raw:
\* parse, validate the schema, validate the language
Attempt(app, mode, language, raw) ==
  LET p == parse_json_loose(raw)
      obj == IF p.exc = "none" THEN p.val ELSE EmptyDict
  IN IF app = "main"
       THEN LET v == validate_by_mode(mode, ensure_dict(obj))
                ok_lang == language_ok(language, v.obj)
            IN [exc |-> "none", parse_exc |-> p.exc, ok_schema |-> v.ok, ok_lang |-> ok_lang,
                obj |-> v.obj, reason |-> v.reason \o <<"; ">> \o ReasonLang(ok_lang, language)]
       ELSE LET v == validate_simplification(obj)
                ok_lang == language_ok(language, obj)
            IN [exc |-> v.exc, parse_exc |-> p.exc, ok_schema |-> v.ok, ok_lang |-> ok_lang,
                obj |-> obj, reason |-> v.reason \o <<"; ">> \o ReasonLang(ok_lang, language)]

\* variant: the language check is not required for acceptance
Accepts_schema_only(a) == a.ok_schema
\* `if ok_schema and ok_lang: return ...`
Accepts(a) == a.ok_schema /\ a.ok_lang

\* variant: off-by-one in the retry test
Retries_offbyone(attempt, max_retries) == attempt <= max_retries
\* `if attempt < max_retries:` another iteration follows
Retries(attempt, max_retries) == attempt < max_retries

JRawStr(raw) == [t |-> "str", s |-> IF raw.shape = "empty" THEN <<>> ELSE <<"raw">>, raw |-> raw]

\* variant: the degraded object carries no failure reason
Fallback_no_reason(app, mode, last_raw, last_reason) ==
  JDict("mode" :> JStr(<<mode>>) @@ "raw" :> JRawStr(last_raw) @@ "error" :> JStr(<<>>))
\* the degraded object returned after the last attempt failed
Fallback(app, mode, last_raw, last_reason) ==
  IF app = "main"
    THEN JDict("mode" :> JStr(<<mode>>) @@ "raw" :> JRawStr(last_raw) @@ "error" :> JStr(last_reason))
  ELSE JDict("summary" :> JDict("about" :> JStr(<<"Error", "processing", "content">>)
                                @@ "key_points" :> JList(<<JStr(<<"Unable", "to", "simplify", "content">>)>>)
                                @@ "important_links" :> JList(<<>>)
                                @@ "warnings" :> JList(<<JStr(<<"Processing", "error", "occurred">>)>>)
                                @@ "glossary" :> JList(<<>>))
             @@ "checklist" :> JNull @@ "error" :> JStr(last_reason) @@ "raw" :> JRawStr(last_raw))

\* locals at the entry of the loop
EnterLoop(f, mode, title, source_text, links) ==
  [f EXCEPT !.pc = "gen", !.cur = mode, !.attempt = 0, !.calls = 0,
            !.messages = prompt_for_mode(f.app, mode, title, source_text, links, f.language),
            !.last_raw = RawEmpty, !.last_reason = <<>>, !.last_model = "",
            !.ok_schema = FALSE, !.ok_lang = FALSE, !.obj_norm = JNull, !.out = NoOut,
            !.loops = (mode :> (IF mode \in DOMAIN f.loops THEN f.loops[mode] ELSE 0) + 1) @@ f.loops]

\* the frame after the loop returned out: a bare call is over, /simplify goes on to
\* save_simplification (the lookup of set(merge=True) is the next step)
AfterLoop(f, out) ==
  IF f.kind = "loop" THEN [f EXCEPT !.pc = "done", !.out = out]
  ELSE LET sid == simplification_id_for(f.page.url, S(f.cur), S(f.language), f.page.source_text_hash) IN
       [f EXCEPT !.pc = "set_read", !.out = out, !.model_used_any = out.model,
                 !.pend = [col |-> "simplifications", id |-> sid,
                           data |-> SimplificationDoc(f.page.url, f.page.page_id, f.page.source_text_hash,
                                                      f.cur, f.language, out.obj, out.model,
                                                      f.session_id, f.seq),
                           exists |-> FALSE, base |-> EmptyFcn]]

\* one iteration: call_openai_chat returns (raw, model_used), then the body
LoopStep(f, raw, model_used) ==
  LET a == Attempt(f.app, f.cur, f.language, raw)
      g == [f EXCEPT !.calls = f.calls + 1, !.last_raw = raw, !.last_model = model_used,
                     !.ok_schema = a.ok_schema, !.ok_lang = a.ok_lang, !.obj_norm = a.obj]
  IN IF a.exc # "none"
       THEN [g EXCEPT !.pc = "failed", !.status = 500, !.exc = a.exc]
     ELSE IF Accepts(a)
       THEN AfterLoop([g EXCEPT !.last_reason = IF a.parse_exc # "none"
                                                 THEN <<"Invalid JSON: ", a.parse_exc>> ELSE f.last_reason],
                      [path |-> "accepted", obj |-> a.obj, model |-> model_used])
     ELSE IF Retries(f.attempt, f.max_retries)
       THEN [g EXCEPT !.last_reason = a.reason, !.attempt = f.attempt + 1,
                      !.messages = f.messages \o Corrective(raw, a.reason, f.language)]
     ELSE AfterLoop([g EXCEPT !.last_reason = a.reason, !.attempt = f.attempt + 1],
                    [path |-> "exhausted", obj |-> Fallback(f.app, f.cur, raw, a.reason),
                     model |-> get_openai_model])

\* a direct call of the loop with max_retries = n
StartLoop(r, langs) ==
  /\ req[r].pc = "idle"
  /\ \E l \in langs, n \in 0..MaxRetriesBound, c \in Contents :
     \E m \in IF deployment = "main" THEN {MainModes[i] : i \in 1..Len(MainModes)} ELSE {"intelligent"} :
       req' = [req EXCEPT ![r] =
                 EnterLoop([IdleFrame EXCEPT !.kind = "loop", !.app = deployment, !.mode = m, !.language = l,
                                             !.max_retries = n],
                           m, c.meta.title, blocks_to_text(c.blocks), pick_important_links(c.links))]
  /\ UNCHANGED <<probe, deployment, pages, simps, started, served, origin, lastPage>>

\* the model call of the current iteration returns
ModelCall(r, wide, models) ==
  /\ req[r].pc = "gen"
  /\ \E raw \in IF wide THEN LoopRaws(req[r].cur) ELSE RequestRaws(req[r].cur, req[r].language),
        mu \in models :
       req' = [req EXCEPT ![r] = LoopStep(req[r], raw, mu)]
  /\ UNCHANGED <<probe, deployment, pages, simps, started, served, origin, lastPage>>

\* variant: a failed call counts as a failed attempt and the loop goes on
ModelCallFails_retried(r) ==
  /\ req[r].pc = "gen"
  /\ req' = [req EXCEPT ![r].exc = "HTTPException", ![r].calls = req[r].calls + 1,
                        ![r].attempt = Min(req[r].attempt + 1, req[r].max_retries)]
  /\ UNCHANGED <<probe, deployment, pages, simps, started, served, origin, lastPage>>
\* call_openai_chat raises (transport error or HTTP error status): the loop does not catch it
ModelCallFails(r) ==
  /\ req[r].pc = "gen"
  /\ req' = [req EXCEPT ![r].pc = "failed", ![r].status = 502, ![r].exc = "HTTPException",
                        ![r].calls = req[r].calls + 1]
  /\ UNCHANGED <<probe, deployment, pages, simps, started, served, origin, lastPage>>

(***************************************************************************)
(* /scrap and /simplify: main.py 667-748, api/routes.py 43-128             *)
(***************************************************************************)
WantedModes(mode) == IF mode = "all" THEN MainModes ELSE <<mode>>

SidOf(f, mode) == simplification_id_for(f.page.url, S(mode), S(f.language), f.page.source_text_hash)

\* history: the id an earlier completed response returned for this tuple, NoId if none did
ServedSid(f, mode) ==
  LET hits == {e \in served : /\ e.url = f.page.url /\ e.mode = mode /\ e.language = f.language
                              /\ e.source_text_hash = f.page.source_text_hash}
  IN IF hits = {} THEN NoId ELSE (CHOOSE e \in hits : TRUE).sid

\* variant: the cache is read whatever force_regen says
ReadsCache_always(force_regen) == force_regen \/ ~force_regen
\* `if not req.force_regen:` guards the cache read
ReadsCache(force_regen) == ~force_regen

\* document(id).set(data, merge=True), second half: store the merged document;
\* then the handler continues after save_page / save_simplification
SetWrite(r) ==
  /\ req[r].pc = "set_write"
  /\ LET f == req[r]
         p == f.pend
         doc == MergedDoc(p.data, TRUE, p.exists, p.base)
     IN IF p.col = "pages"
          THEN /\ pages' = Put(pages, p.id, doc)
               /\ lastPage' = IF f.page = NoPage THEN lastPage ELSE
                              LET old == IF f.url \in DOMAIN lastPage THEN lastPage[f.url] ELSE NoWrite IN
                              (f.url :> [page |-> f.page, writes |-> old.writes + 1,
                                         prev_hash |-> IF old.writes = 0 THEN NoId
                                                       ELSE old.page.source_text_hash]) @@ lastPage
               /\ req' = [req EXCEPT ![r] =
                            IF f.kind \in {"scrap", "get_or_create_page", "save_page"}
                              THEN [f EXCEPT !.pc = "done", !.status = 200, !.pend = NoPend]
                            ELSE IF f.kind = "chat"
                              THEN [f EXCEPT !.pc = "chat_reload", !.pend = NoPend]
                            ELSE [f EXCEPT !.pc = "next_mode", !.pend = NoPend,
                                           !.wanted = WantedModes(f.mode)]]
               /\ UNCHANGED <<simps, origin>>
        ELSE /\ simps' = Put(simps, p.id, doc)
             /\ origin' = (p.id :> [path |-> f.out.path, by |-> r]) @@ origin
             /\ req' = [req EXCEPT ![r] =
                          IF f.kind = "chat"
                            THEN [f EXCEPT !.pc = "chat_answer", !.pend = NoPend, !.simpl_id = p.id,
                                           !.simpl_output = f.out.obj,
                                           !.wrote = (f.cur :> p.data) @@ f.wrote]
                          ELSE
                          [f EXCEPT !.pc = "next_mode", !.pend = NoPend,
                                    !.outputs = (f.cur :> f.out.obj) @@ f.outputs,
                                    !.simpl_ids = (f.cur :> p.id) @@ f.simpl_ids,
                                    !.wrote = (f.cur :> p.data) @@ f.wrote,
                                    !.wanted = Tail(f.wanted)]]
             /\ UNCHANGED <<pages, lastPage>>
  /\ UNCHANGED <<probe, deployment, started, served>>

\* the cache holds a usable record: reuse it, no generation for this mode
CacheHit(r) ==
  /\ req[r].pc = "next_mode"
  /\ req[r].wanted # <<>>
  /\ ReadsCache(req[r].force_regen)
  /\ LET f == req[r]
         m == Head(f.wanted)
         sid == SidOf(f, m)
     IN /\ CacheUsable(simps, sid)
        /\ req' = [req EXCEPT ![r] =
                     [f EXCEPT !.outputs = (m :> simps[sid].output) @@ f.outputs,
                               !.simpl_ids = (m :> sid) @@ f.simpl_ids,
                               !.model_used_any = simps[sid].llm.model,
                               !.reads = f.reads + 1,
                               !.prior = (m :> ServedSid(f, m)) @@ f.prior,
                               !.wanted = Tail(f.wanted)]]
  /\ UNCHANGED <<probe, deployment, pages, simps, started, served, origin, lastPage>>

\* the cache was read and holds nothing usable: generate
CacheMiss(r) ==
  /\ req[r].pc = "next_mode"
  /\ req[r].wanted # <<>>
  /\ ReadsCache(req[r].force_regen)
  /\ LET f == req[r]
         m == Head(f.wanted)
     IN /\ ~CacheUsable(simps, SidOf(f, m))
        /\ req' = [req EXCEPT ![r] =
                     EnterLoop([f EXCEPT !.reads = f.reads + 1, !.prior = (m :> ServedSid(f, m)) @@ f.prior],
                               m, f.page.meta.title, f.page.source_text, pick_important_links(f.page.links))]
  /\ UNCHANGED <<probe, deployment, pages, simps, started, served, origin, lastPage>>

\* force_regen: no cache read, generate
ForceRegen(r) ==
  /\ req[r].pc = "next_mode"
  /\ req[r].wanted # <<>>
  /\ ~ReadsCache(req[r].force_regen)
  /\ LET f == req[r]
         m == Head(f.wanted)
     IN req' = [req EXCEPT ![r] =
                  EnterLoop([f EXCEPT !.prior = (m :> ServedSid(f, m)) @@ f.prior],
                            m, f.page.meta.title, f.page.source_text, pick_important_links(f.page.links))]
  /\ UNCHANGED <<probe, deployment, pages, simps, started, served, origin, lastPage>>

\* every wanted mode is done: build the response (main.py fills the keys of the modes
\* that were not asked for with None and "")
Respond(r) ==
  /\ req[r].pc = "next_mode"
  /\ req[r].wanted = <<>>
  /\ LET f == req[r]
         handled == DOMAIN f.outputs
         rest == IF f.app = "main" THEN {MainModes[i] : i \in 1..Len(MainModes)} \ handled ELSE {}
     IN /\ req' = [req EXCEPT ![r] =
                     [f EXCEPT !.pc = "done", !.status = 200,
                               !.outputs = [m \in rest |-> JNull] @@ f.outputs,
                               !.simpl_ids = [m \in rest |-> NoId] @@ f.simpl_ids]]
        /\ served' = served \cup {[url |-> f.page.url, mode |-> m, language |-> f.language,
                                   source_text_hash |-> f.page.source_text_hash,
                                   sid |-> f.simpl_ids[m]] : m \in handled}
  /\ UNCHANGED <<probe, deployment, pages, simps, started, origin, lastPage>>

(***************************************************************************)
(* /chat: main.py 790-886                                                  *)
(***************************************************************************)
history_tail == 6

Suffix(l, n) == SubSeq(l, Len(l) - Min(Len(l), n) + 1, Len(l))

\* POST /chat {url, page_id, mode, language, simplification_id, section_id, section_text,
\* message, history, session_id}; an absent url, page_id or simplification_id is NoId
StartChat(r, urls, page_ids, modes, langs, simplification_ids, section_ids, section_texts, histories) ==
  /\ started < NumRequests
  /\ deployment = "main"
  /\ \E u \in urls, pid \in page_ids, m \in modes, l \in langs, sid \in simplification_ids,
        sec \in section_ids, txt \in section_texts, h \in histories :
       req' = [req EXCEPT ![r] =
                 [IdleFrame EXCEPT !.pc = "chat", !.kind = "chat", !.app = "main", !.url = u,
                                   !.page_id = pid, !.mode = m, !.language = l,
                                   !.simplification_id = sid, !.section_id = sec,
                                   !.section_text = txt, !.message = <<"question">>, !.history = h,
                                   !.max_retries = 1, !.seq = started + 1]]
  /\ started' = started + 1
  /\ UNCHANGED <<probe, deployment, pages, simps, served, origin, lastPage>>

\* page_id of the handler: req.url wins over req.page_id
ChatPageId(f) == IF f.url # NoId THEN page_id_for_url(f.url) ELSE f.page_id

\* neither url nor page_id
ChatBadRequest(r) ==
  /\ req[r].pc = "chat"
  /\ req[r].url = NoId /\ req[r].page_id = NoId
  /\ req' = [req EXCEPT ![r].pc = "failed", ![r].status = 400, ![r].exc = "HTTPException"]
  /\ UNCHANGED <<probe, deployment, pages, simps, started, served, origin, lastPage>>

\* get_page found nothing usable
PageMissing(f) ==
  IF ChatPageId(f) \in DOMAIN pages THEN DOMAIN pages[ChatPageId(f)] = {} ELSE TRUE

\* variant: a page that is not there is registered before the request fails
ChatNotFound_placeholder(r) ==
  /\ req[r].pc = "chat"
  /\ req[r].url = NoId /\ req[r].page_id # NoId
  /\ PageMissing(req[r])
  /\ req' = [req EXCEPT ![r].pc = "failed", ![r].status = 404, ![r].exc = "HTTPException"]
  /\ pages' = Put(pages, req[r].page_id, [status |-> "placeholder", updated_at |-> req[r].seq])
  /\ UNCHANGED <<probe, deployment, simps, started, served, origin, lastPage>>
\* only a page_id, and no page record under it
ChatNotFound(r) ==
  /\ req[r].pc = "chat"
  /\ req[r].url = NoId /\ req[r].page_id # NoId
  /\ PageMissing(req[r])
  /\ req' = [req EXCEPT ![r].pc = "failed", ![r].status = 404, ![r].exc = "HTTPException"]
  /\ UNCHANGED <<probe, deployment, pages, simps, started, served, origin, lastPage>>

\* a url, and no page record for it: scrape_url(str(req.url), ...) is entered
ChatScrapes(r) ==
  /\ req[r].pc = "chat"
  /\ req[r].url # NoId
  /\ PageMissing(req[r])
  /\ req' = [req EXCEPT ![r].pc = "scrape"]
  /\ UNCHANGED <<probe, deployment, pages, simps, started, served, origin, lastPage>>

DocGet(doc, k, default) == IF k \in DOMAIN doc THEN doc[k] ELSE default

\* the locals source_text, title, source_hash, page_url and the links read off `page`
ChatPage(f, page) ==
  [page_id |-> ChatPageId(f),
   url |-> IF DocGet(page, "url", NoId) # NoId THEN page.url ELSE f.url,
   meta |-> DocGet(page, "meta", [title |-> None]),
   blocks |-> DocGet(page, "blocks", <<>>), links |-> DocGet(page, "links", <<>>),
   images |-> DocGet(page, "images", <<>>),
   source_text |-> DocGet(page, "source_text", <<>>),
   source_text_hash |-> DocGet(page, "source_text_hash", NoId)]

\* the bundle scrape_url returned, as a mapping
BundleDoc(b) ==
  [url |-> b.url, meta |-> b.meta, blocks |-> b.blocks, links |-> b.links, images |-> b.images,
   source_text |-> b.source_text, source_text_hash |-> b.source_text_hash]

\* get_page returned the stored page
ChatPageFound(r) ==
  /\ req[r].pc = "chat"
  /\ ~PageMissing(req[r])
  /\ req' = [req EXCEPT ![r].pc = "chat_simpl",
                        ![r].page = ChatPage(req[r], pages[ChatPageId(req[r])])]
  /\ UNCHANGED <<probe, deployment, pages, simps, started, served, origin, lastPage>>

\* `page = get_page(page_id=page_bundle["page_id"]) or page_bundle` after scrape_url returned
ChatReload(r) ==
  /\ req[r].pc = "chat_reload"
  /\ LET f == req[r] IN
     req' = [req EXCEPT ![r].pc = "chat_simpl",
                        ![r].page = ChatPage(f, IF PageMissing(f) THEN BundleDoc(f.page)
                                                ELSE pages[ChatPageId(f)])]
  /\ UNCHANGED <<probe, deployment, pages, simps, started, served, origin, lastPage>>

\* simpl_output and simpl_id as the store gives them: the document named by
\* req.simplification_id when one is given, else the cached record of the tuple
ResolvedSimplification(f) ==
  IF f.simplification_id # NoId
    THEN [output |-> IF f.simplification_id \in DOMAIN simps
                       THEN DocGet(simps[f.simplification_id], "output", JNull) ELSE JNull,
          id |-> f.simplification_id]
  ELSE LET sid == SidOf(f, f.mode) IN
       IF sid \in DOMAIN simps
         THEN [output |-> DocGet(simps[sid], "output", JNull), id |-> sid]
       ELSE [output |-> JNull, id |-> NoId]

\* resolve the simplification; generate on the fly when none is there and the page has a url
ChatResolves(r) ==
  /\ req[r].pc = "chat_simpl"
  /\ LET f == req[r]
         res == ResolvedSimplification(f)
         g == [f EXCEPT !.simpl_output = res.output, !.simpl_id = res.id, !.reads = f.reads + 1]
     IN req' = [req EXCEPT ![r] =
                  IF res.output = JNull /\ f.page.url # NoId
                    THEN EnterLoop(g, f.mode, f.page.meta.title, f.page.source_text,
                                   pick_important_links(f.page.links))
                  ELSE [g EXCEPT !.pc = "chat_answer"]]
  /\ UNCHANGED <<probe, deployment, pages, simps, started, served, origin, lastPage>>

\* the messages of the final call: system, the last history_tail turns, the question with
\* its context
ChatMessages(f) ==
  << [role |-> "system", kind |-> "chat_instructions", language |-> f.language] >>
  \o Suffix(f.history, history_tail)
  \o << [role |-> "user", kind |-> "question", question |-> f.message,
         context |-> [title |-> f.page.meta.title, url |-> f.page.url,
                      context |-> extract_best_context(f.mode, f.language, f.section_id, f.section_text,
                                                       f.simpl_output, f.page.source_text)]] >>

\* the final call_openai_chat returns: ChatResponse
ChatAnswers(r, models) ==
  /\ req[r].pc = "chat_answer"
  /\ \E mu \in models :
       req' = [req EXCEPT ![r].pc = "done", ![r].status = 200, ![r].calls = req[r].calls + 1,
                          ![r].chat_messages = ChatMessages(req[r]),
                          ![r].model_used_any = mu, ![r].answer = <<"answer">>]
  /\ UNCHANGED <<probe, deployment, pages, simps, started, served, origin, lastPage>>

\* the final call_openai_chat raises
ChatAnswerFails(r) ==
  /\ req[r].pc = "chat_answer"
  /\ req' = [req EXCEPT ![r].pc = "failed", ![r].status = 502, ![r].exc = "HTTPException",
                        ![r].calls = req[r].calls + 1,
                        ![r].chat_messages = ChatMessages(req[r])]
  /\ UNCHANGED <<probe, deployment, pages, simps, started, served, origin, lastPage>>

(***************************************************************************)
(* _fetch_image_as_data_url: main.py 116-183                               *)
(* One call, kept in probe: current is the hostname of current_url ("" if  *)
(* it has none), rounds the number of loop iterations begun, checked the   *)
(* hostname assert_public_hostname accepted in this iteration, sent the    *)
(* requests sent so far, each with the hostname it went to and whether     *)
(* that hostname had been checked.                                         *)
(***************************************************************************)
image_rounds == 5

ImageCall(pc, current, rounds) ==
  [fn |-> "_fetch_image_as_data_url", pc |-> pc, current |-> current, rounds |-> rounds,
   checked |-> "", sent |-> <<>>, response |-> "none", status |-> 0, detail |-> ""]

ImageFails(call, status, detail) == [call EXCEPT !.pc = "failed", !.status = status, !.detail = detail]

\* the call begins: a data URL is returned as it is (or is too large), another scheme than
\* http(s) is refused, an http(s) URL enters the loop
StartImageFetch(hosts) ==
  /\ probe = NoProbe
  /\ \E scheme \in {"data", "ftp", "https"}, large \in BOOLEAN, h \in hosts :
       probe' = CASE scheme = "data" /\ large ->
                       ImageFails(ImageCall("start", "", 0), 413, "data URL image is too large")
                  [] scheme = "data" /\ ~large -> [ImageCall("done", "", 0) EXCEPT !.status = 200]
                  [] scheme = "ftp" ->
                       ImageFails(ImageCall("start", h, 0), 400,
                                  "Only http(s) or data image URLs are supported")
                  [] OTHER -> ImageCall("guard", h, 1)
  /\ UNCHANGED <<deployment, pages, simps, req, started, served, origin, lastPage>>

\* top of an iteration: the hostname of current_url is required and checked
ImageGuard(resolutions) ==
  /\ probe.fn = "_fetch_image_as_data_url" /\ probe.pc = "guard"
  /\ \E dns \in resolutions :
       LET verdict == assert_public_hostname(probe.current, dns) IN
       probe' = IF probe.current = ""
                  THEN ImageFails(probe, 400, "image_url must include a hostname")
                ELSE IF verdict.raised THEN ImageFails(probe, verdict.status_code, verdict.detail)
                ELSE [probe EXCEPT !.pc = "request", !.checked = probe.current]
  /\ UNCHANGED <<deployment, pages, simps, req, started, served, origin, lastPage>>

SentTo(call) == Append(call.sent, [host |-> call.current, checked |-> call.checked = call.current])

\* variant: the HTTP client follows the redirect by itself
ImageRedirected_followed(hosts) ==
  /\ probe.fn = "_fetch_image_as_data_url" /\ probe.pc = "request"
  /\ Len(probe.sent) < image_rounds
  /\ \E h \in hosts \ {""} :
       probe' = [probe EXCEPT !.sent = SentTo(probe), !.response = "redirect", !.current = h]
  /\ UNCHANGED <<deployment, pages, simps, req, started, served, origin, lastPage>>
\* the request is sent with follow_redirects=False and answered by a redirect with a
\* Location: current_url moves there and the next iteration begins, if there is one
ImageRedirected(hosts) ==
  /\ probe.fn = "_fetch_image_as_data_url" /\ probe.pc = "request"
  /\ \E h \in hosts :
       LET call == [probe EXCEPT !.sent = SentTo(probe), !.response = "redirect", !.current = h,
                                 !.checked = ""]
       IN probe' = IF probe.rounds < image_rounds
                     THEN [call EXCEPT !.pc = "guard", !.rounds = probe.rounds + 1]
                   ELSE ImageFails(call, 400, "Too many redirects fetching image")
  /\ UNCHANGED <<deployment, pages, simps, req, started, served, origin, lastPage>>

\* the request is sent and answered by something else, or not answered
ImageAnswered ==
  /\ probe.fn = "_fetch_image_as_data_url" /\ probe.pc = "request"
  /\ \E answer \in {"image", "empty", "too_large", "not_image", "not_found", "no_answer"} :
       LET call == [probe EXCEPT !.sent = SentTo(probe), !.response = answer] IN
       probe' = CASE answer = "image" -> [call EXCEPT !.pc = "done", !.status = 200]
                  [] answer = "empty" -> ImageFails(call, 502, "Fetched image was empty")
                  [] answer = "too_large" -> ImageFails(call, 413, "Image too large")
                  [] answer = "not_image" -> ImageFails(call, 415, "Unsupported content-type")
                  [] answer = "not_found" -> ImageFails(call, 404, "Image fetch failed")
                  [] OTHER -> ImageFails(call, 502, "Failed to fetch image")
  /\ UNCHANGED <<deployment, pages, simps, req, started, served, origin, lastPage>>

(***************************************************************************)
(* firebase_store.py: get_or_create_page (143-168) and save_page (171-199) *)
(* called on their own                                                     *)
(***************************************************************************)
\* get_or_create_page(url=..., session_id=...) begins: the snapshot read is next
StartGetOrCreate(r, urls) ==
  /\ started < NumRequests
  /\ \E u \in urls :
       req' = [req EXCEPT ![r] = [IdleFrame EXCEPT !.pc = "snap", !.kind = "get_or_create_page",
                                                   !.url = u, !.seq = started + 1]]
  /\ started' = started + 1
  /\ UNCHANGED <<probe, deployment, pages, simps, served, origin, lastPage>>

\* snap = ref.get(): an existing document is returned, a missing one leads to
\* ref.set(placeholder, merge=True)
PageSnap(r) ==
  /\ req[r].pc = "snap"
  /\ LET f == req[r]
         id == page_id_for_url(f.url)
     IN req' = [req EXCEPT ![r] =
                  IF id \in DOMAIN pages THEN [f EXCEPT !.pc = "done", !.status = 200]
                  ELSE [f EXCEPT !.pc = "set_read",
                                 !.pend = [col |-> "pages", id |-> id,
                                           data |-> [url |-> f.url, session_id |-> f.session_id,
                                                     status |-> "placeholder", created_at |-> f.seq,
                                                     updated_at |-> f.seq],
                                           exists |-> FALSE, base |-> EmptyFcn]]]
  /\ UNCHANGED <<probe, deployment, pages, simps, started, served, origin, lastPage>>

\* save_page(url=..., ...) begins with the document of a scrape: set(doc, merge=True) is next
StartSavePage(r, urls, contents) ==
  /\ started < NumRequests
  /\ \E u \in urls, c \in contents :
       LET page == Bundle(u, c) IN
       req' = [req EXCEPT ![r] =
                 [IdleFrame EXCEPT !.pc = "set_read", !.kind = "save_page", !.url = u, !.page = page,
                                   !.seq = started + 1,
                                   !.pend = [col |-> "pages", id |-> page_id_for_url(u),
                                             data |-> PageDoc(u, page, None, started + 1),
                                             exists |-> FALSE, base |-> EmptyFcn]]]
  /\ started' = started + 1
  /\ UNCHANGED <<probe, deployment, pages, simps, served, origin, lastPage>>

(***************************************************************************)
(* Specifications                                                          *)
(***************************************************************************)
RequestModes == {"easy_read", "all"}
RequestLangs == {"zh"}
Sessions == {"s1"}

\* Spec: requests handled one after the other
StartNextScrap == Free("r1") /\ StartScrap("r1", Urls)
StartNextSimplify ==
  Free("r1") /\ StartSimplify("r1", {UrlA}, RequestModes, RequestLangs, BOOLEAN, Sessions)

Next ==
  \/ StartNextScrap
  \/ StartNextSimplify
  \/ GuardRejects("r1")
  \/ GuardAccepts("r1")
  \/ Redirected("r1", {MetadataHost})
  \/ FetchFails("r1", FetchErrors)
  \/ Scrape("r1", Contents)
  \/ StoreFails("r1")
  \/ SetRead("r1")
  \/ SetWrite("r1")
  \/ CacheHit("r1")
  \/ CacheMiss("r1")
  \/ ForceRegen("r1")
  \/ ModelCall("r1", FALSE, {DEFAULT_MODEL})
  \/ ModelCallFails("r1")
  \/ Respond("r1")

Spec == Init /\ [][Next]_vars

\* SpecLoop: one direct call of the generation loop, with any max_retries up to the bound
CallLoop == StartLoop("r1", Languages)
LoopModelCall == ModelCall("r1", TRUE, ReportedModels)
LoopModelCallFails == ModelCallFails("r1")

NextLoop ==
  \/ CallLoop
  \/ LoopModelCall
  \/ LoopModelCallFails

SpecLoop == Init /\ [][NextLoop]_vars

\* SpecConc: two /simplify requests for one url, mode and language, handled concurrently
\* (a thread per request); every store access and model call is a step of its own
ConcSessions == {None, "s1"}
StartConcurrent(r) ==
  req[r].pc = "idle" /\ StartSimplify(r, {UrlA}, {"easy_read"}, {"zh"}, BOOLEAN, ConcSessions)

NextConc ==
  \E r \in Req :
    \/ StartConcurrent(r)
    \/ GuardRejects(r)
    \/ GuardAccepts(r)
    \/ FetchFails(r, {502})
    \/ Scrape(r, Contents)
    \/ SetRead(r)
    \/ SetWrite(r)
    \/ CacheHit(r)
    \/ CacheMiss(r)
    \/ ForceRegen(r)
    \/ ModelCall(r, FALSE, ReportedModels)
    \/ ModelCallFails(r)
    \/ Respond(r)

SpecConc == Init /\ [][NextConc]_vars

\* SpecChat: /chat and /simplify requests handled one after the other
ChatUrls == {NoId, UrlA}
ChatPageIds == {NoId, page_id_for_url(UrlA), page_id_for_url(UrlB)}
ChatSimplificationIds ==
  {NoId, S("sim_unknown"),
   simplification_id_for(UrlA, S("easy_read"), S("zh"), sha256_hex(blocks_to_text(ContentA.blocks)))}
Turn(role) == [role |-> role, kind |-> "history"]
ChatHistories == {<<>>, [i \in 1..(history_tail + 1) |-> Turn(IF i % 2 = 1 THEN "user" ELSE "assistant")]}

\* /simplify requests between the /chat requests
StartChatSimplify ==
  Free("r1") /\ StartSimplify("r1", {UrlA}, {"easy_read"}, {"zh"}, BOOLEAN, Sessions)

StartNextChat ==
  Free("r1") /\ StartChat("r1", ChatUrls, ChatPageIds, {"easy_read", "checklist"}, {"zh"}, ChatSimplificationIds,
                          {NoText, Some(<<"a">>)}, {NoText}, ChatHistories)

NextChat ==
  \/ StartNextChat
  \/ StartChatSimplify
  \/ CacheHit("r1")
  \/ CacheMiss("r1")
  \/ ForceRegen("r1")
  \/ Respond("r1")
  \/ ChatBadRequest("r1")
  \/ ChatNotFound("r1")
  \/ ChatPageFound("r1")
  \/ ChatScrapes("r1")
  \/ GuardRejects("r1")
  \/ GuardAccepts("r1")
  \/ FetchFails("r1", {502})
  \/ Scrape("r1", {ContentA})
  \/ SetRead("r1")
  \/ SetWrite("r1")
  \/ ChatReload("r1")
  \/ ChatResolves("r1")
  \/ ModelCall("r1", FALSE, {DEFAULT_MODEL})
  \/ ModelCallFails("r1")
  \/ ChatAnswers("r1", {DEFAULT_MODEL})
  \/ ChatAnswerFails("r1")

SpecChat == Init /\ [][NextChat]_vars

\* SpecImage: one call of _fetch_image_as_data_url
ImageHosts == {"", "a.example", "img.example", MetadataHost, "localhost"}
ImageResolutions ==
  {[gaierror |-> TRUE, ips |-> {}], [gaierror |-> FALSE, ips |-> {Addr("93.184.216.34", TRUE, {})}],
   [gaierror |-> FALSE, ips |-> {Addr("169.254.169.254", TRUE, {"is_private", "is_link_local"})}]}

FetchImage == StartImageFetch(ImageHosts)
ImageHostChecked == ImageGuard(ImageResolutions)
ImageRedirect == ImageRedirected(ImageHosts)

NextImage ==
  \/ FetchImage
  \/ ImageHostChecked
  \/ ImageRedirect
  \/ ImageAnswered

SpecImage == Init /\ [][NextImage]_vars

\* SpecPages: calls of get_or_create_page and save_page for one url, in two threads
NextPages ==
  \E r \in Req :
    \/ Free(r) /\ StartGetOrCreate(r, {UrlA})
    \/ PageSnap(r)
    \/ Free(r) /\ StartSavePage(r, {UrlA}, Contents)
    \/ SetRead(r)
    \/ SetWrite(r)

SpecPages == Init /\ [][NextPages]_vars

\* SpecIds: simplification_id_for applied to two tuples of arguments
MaxUrlLen == 3
UrlSymbols == {Ch("a"), Sep, Ch("zh")}
RECURSIVE StringsUpTo(_, _)
StringsUpTo(alphabet, n) ==
  IF n = 0 THEN {<<>>}
  ELSE LET shorter == StringsUpTo(alphabet, n - 1) IN
       shorter \cup {Append(w, x) : w \in shorter, x \in alphabet}

\* the argument tuples requests can produce: any url, a mode and a language of the
\* request models, a hex digest
IdTuples ==
  [url : StringsUpTo(UrlSymbols, MaxUrlLen) \ {<<>>},
   mode : {S("easy_read"), S("checklist")},
   language : {S("en"), S("zh")},
   source_text_hash : {sha256_hex(blocks_to_text(c.blocks)) : c \in Contents}]

TupleKey(t) == KeyString(t.url, t.mode, t.language, t.source_text_hash)
TupleId(t) == simplification_id_for(t.url, t.mode, t.language, t.source_text_hash)

ComputeIds ==
  /\ probe = NoProbe
  /\ \E t1 \in IdTuples, t2 \in IdTuples :
       probe' = [fn |-> "simplification_id_for", t1 |-> t1, t2 |-> t2,
                 key1 |-> TupleKey(t1), key2 |-> TupleKey(t2),
                 id1 |-> TupleId(t1), id2 |-> TupleId(t2)]
  /\ UNCHANGED <<deployment, pages, simps, req, started, served, origin, lastPage>>

NextIds == ComputeIds

SpecIds == Init /\ [][NextIds]_vars

\* SpecFns: the pure functions of the pipeline, each applied once to arguments of its domain
CheckHostname ==
  /\ probe = NoProbe
  /\ \E h \in Hostnames, dns \in Resolutions :
       probe' = [fn |-> "assert_public_hostname", hostname |-> h, dns |-> dns,
                 result |-> assert_public_hostname(h, dns)]
  /\ UNCHANGED <<deployment, pages, simps, req, started, served, origin, lastPage>>

\* objects tried on validate_by_mode: a minimal well-formed one, that object without one
\* of its fields, that object with a string in place of one of its lists
Without(obj, k) == JDict([x \in DOMAIN obj.d \ {k} |-> obj.d[x]])
WithString(obj, k) == JDict([obj.d EXCEPT ![k] = JStr(<<"none">>)])
ListKeys(obj) == {k \in DOMAIN obj.d : IsList(obj.d[k])}

ValidationInputs(mode) ==
  LET good == Good(mode, Txt("en")) IN
  {[variant |-> "minimal", field |-> "", obj |-> good]}
  \cup {[variant |-> "missing", field |-> k, obj |-> Without(good, k)] : k \in DOMAIN good.d}
  \cup {[variant |-> "not_a_list", field |-> k, obj |-> WithString(good, k)] : k \in ListKeys(good)}

ApplyValidateByMode ==
  /\ probe = NoProbe
  /\ \E i \in 1..Len(MainModes) :
     \E in \in ValidationInputs(MainModes[i]) :
       probe' = [fn |-> "validate_by_mode", mode |-> MainModes[i], variant |-> in.variant,
                 field |-> in.field, obj |-> in.obj, result |-> validate_by_mode(MainModes[i], in.obj)]
  /\ UNCHANGED <<deployment, pages, simps, req, started, served, origin, lastPage>>

\* texts tried on language_ok: no words, a CJK or Tamil unit among other words, ten common
\* English words, eight words with three / with four common English ones, seven words,
\* two Malay markers, one Malay marker
LanguageTexts ==
  {<<>>, <<"123">>, <<"CJK">>, <<"the", "CJK", "page">>, <<"TAMIL">>, <<"page", "TAMIL">>,
   <<"the", "this", "that", "page", "domain", "used", "use", "for", "only", "not">>,
   <<"the", "this", "that", "kami", "akan", "hantar", "surat", "esok">>,
   <<"the", "this", "that", "page", "akan", "hantar", "surat", "esok">>,
   <<"kami", "akan", "hantar", "surat", "esok", "pagi", "nanti">>,
   <<"the", "page", "ini", "untuk">>, <<"the", "page", "ini">>,
   <<"kami", "akan", "hantar", "surat">>}

\* objects holding the texts a and b as string values at different depths; the key of a
\* dict is not a value
LanguageObjects ==
  {JNull, JNum, JTrue, EmptyDict, JDict("CJK" :> JNum), JDict("TAMIL" :> JList(<<>>))}
  \cup {JStr(a) : a \in LanguageTexts}
  \cup {JDict("about" :> JStr(a) @@ "n" :> JNum) : a \in LanguageTexts}
  \cup {JDict("sections" :> JList(<<JDict("heading" :> JStr(a) @@ "bullets" :> JList(<<JStr(b)>>))>>)) :
          a \in LanguageTexts, b \in LanguageTexts}

ProbeLanguages == {"en", "zh", "ms", "ta"}

ApplyLanguageOk ==
  /\ probe = NoProbe
  /\ \E lang \in ProbeLanguages, obj \in LanguageObjects :
       probe' = [fn |-> "language_ok", lang |-> lang, obj |-> obj, result |-> language_ok(lang, obj)]
  /\ UNCHANGED <<deployment, pages, simps, req, started, served, origin, lastPage>>

Chars(word) ==
  CASE word = "Fees" -> <<"F", "e", "e", "s">>
    [] word = "fees" -> <<"f", "e", "e", "s">>
    [] word = " FEES" -> <<" ", "F", "E", "E", "S">>
    [] word = " fees " -> <<" ", "f", "e", "e", "s", " ">>
    [] word = "Cost" -> <<"C", "o", "s", "t">>
    [] word = "1" -> <<"1">>
    [] word = " " -> <<" ">>
    [] word = " \t" -> <<" ", "\t">>
    [] OTHER -> <<>>

SectionEntry(heading, bullets) == JDict("heading" :> heading @@ "bullets" :> bullets)
Bullet(b) == JStr(<<b>>)

SectionTexts == {NoText, Some(<<>>), Some(Chars(" \t")), Some(Chars(" fees "))}
SectionIds == {NoText} \cup {Some(Chars(w)) : w \in {"", " ", "Fees", " fees ", "Cost", "1"}}

\* sections lists: two entries match "fees" after a string entry and another section; an
\* empty, a missing and a numeric heading; thirteen bullets; bullets that are no list
SectionLists ==
  {<<>>,
   <<JStr(Chars("Fees")), SectionEntry(JStr(Chars("Cost")), JList(<<Bullet("c")>>)),
     SectionEntry(JStr(Chars(" FEES")), JList(<<Bullet("first")>>)),
     SectionEntry(JStr(Chars("fees")), JList(<<Bullet("second")>>))>>,
   <<SectionEntry(JStr(<<>>), JList(<<Bullet("e")>>)), JDict("bullets" :> JList(<<>>)),
     SectionEntry(JNum, JNull)>>,
   <<SectionEntry(JStr(Chars(" ")), JList(<<>>)),
     SectionEntry(JStr(Chars("Fees")), JList([i \in 1..(max_bullets + 1) |-> Bullet("b")]))>>,
   <<SectionEntry(JStr(Chars("Fees")), JStr(<<"text">>))>>}

SimplOutputs ==
  {JNull, JDict("mode" :> JStr(<<"easy_read">>)),
   JDict("mode" :> JStr(<<"easy_read">>) @@ "sections" :> JStr(Chars("Fees")))}
  \cup {JDict("mode" :> JStr(<<"easy_read">>) @@ "sections" :> JList(l)) : l \in SectionLists}

SourceTexts == {<<>>, <<"p", "a", "g", "e">>, [i \in 1..(source_text_chars + 1) |-> "x"]}

ApplyExtractBestContext ==
  /\ probe = NoProbe
  /\ \E section_id \in SectionIds, section_text \in SectionTexts,
        simpl_output \in SimplOutputs, source_text \in SourceTexts :
       probe' = [fn |-> "_extract_best_context", section_id |-> section_id,
                 section_text |-> section_text, simpl_output |-> simpl_output,
                 source_text |-> source_text,
                 result |-> extract_best_context("easy_read", "en", section_id, section_text,
                                                 simpl_output, source_text)]
  /\ UNCHANGED <<deployment, pages, simps, req, started, served, origin, lastPage>>

CodeBlock(text) == [type |-> "code", text |-> text]

\* block sequences of two scrapes of one page: they differ in the rows of a table, in a code
\* block, in the thirteenth item of a list, in a block after one that fills the character
\* budget, in a paragraph, or not at all
ScrapedBlocks ==
  LET items == [i \in 1..max_list_items |-> <<"item">>]
      long == Paragraph([i \in 1..(max_chars + 1) |-> "x"])
  IN {<<Heading(1, <<"Fees">>), TableBlock(<<<<"fee">>, <<"date">>>>, <<>>)>>,
      <<Heading(1, <<"Fees">>), TableBlock(<<<<"fee">>, <<"date">>>>, << <<<<"10">>, <<"May">>>> >>)>>,
      <<Heading(1, <<"Fees">>), CodeBlock(<<"pay">>)>>,
      <<Heading(1, <<"Fees">>), CodeBlock(<<"apply">>)>>,
      <<ListBlock(Append(items, <<"pay">>))>>,
      <<ListBlock(Append(items, <<"apply">>))>>,
      <<long, Paragraph(<<"pay">>)>>,
      <<long, Paragraph(<<"apply">>)>>,
      <<Heading(1, <<"Fees">>), Paragraph(<<"pay">>)>>,
      <<Heading(1, <<"Fees">>), Paragraph(<<"apply">>)>>}

\* scrape_url on two fetched documents: the text and the hash of each
HashTwoScrapes ==
  /\ probe = NoProbe
  /\ \E b1 \in ScrapedBlocks, b2 \in ScrapedBlocks :
       probe' = [fn |-> "blocks_to_text", blocks1 |-> b1, blocks2 |-> b2,
                 hash1 |-> sha256_hex(blocks_to_text(b1)), hash2 |-> sha256_hex(blocks_to_text(b2))]
  /\ UNCHANGED <<deployment, pages, simps, req, started, served, origin, lastPage>>

MaxElements == 3

\* candidate elements: equal and different paragraphs, an empty one, headings, tables with
\* the same and with different headers and rows, lists at two depths, pre and code, hr
PageElements ==
  {Element("p", <<"a">>, <<>>, 0, <<>>, <<>>), Element("p", <<"b">>, <<>>, 0, <<>>, <<>>),
   Element("p", <<>>, <<>>, 0, <<>>, <<>>), Element("h2", <<"a">>, <<>>, 0, <<>>, <<>>),
   Element("blockquote", <<"a">>, <<>>, 0, <<>>, <<>>),
   Element("table", <<>>, <<>>, 0, <<<<"fee">>>>, << <<<<"10">>>> >>),
   Element("table", <<>>, <<>>, 0, <<<<"fee">>>>, << <<<<"20">>>> >>),
   Element("table", <<>>, <<>>, 0, <<<<"date">>>>, <<>>),
   Element("ul", <<>>, <<<<"x">>>>, 0, <<>>, <<>>), Element("ol", <<>>, <<<<"x">>>>, 1, <<>>, <<>>),
   Element("pre", <<"c">>, <<>>, 0, <<>>, <<>>), Element("code", <<"c">>, <<>>, 0, <<>>, <<>>),
   Element("hr", <<>>, <<>>, 0, <<>>, <<>>)}

\* pages of up to MaxElements candidates
CandidateLists == UNION {[1..n -> PageElements] : n \in 0..MaxElements}

ExtractBlocks ==
  /\ probe = NoProbe
  /\ \E candidates \in CandidateLists :
       probe' = [fn |-> "extract_blocks_in_order", candidates |-> candidates,
                 emitted |-> EmitBlocks(candidates, 1, <<>>),
                 result |-> extract_blocks_in_order(candidates)]
  /\ UNCHANGED <<deployment, pages, simps, req, started, served, origin, lastPage>>

MaxAnchors == 2

BaseUrl == UrlRef("https", "a.example", TRUE, <<"docs", "page">>, "")

\* href values: none, fragment only, relative, rooted, scheme-relative, absolute to the same
\* and to another host, mailto, tel, javascript, data
Hrefs ==
  {NoRef, UrlRef("", "", FALSE, <<>>, "top"), UrlRef("", "", FALSE, <<"next">>, ""),
   UrlRef("", "", TRUE, <<"fees">>, "pay"), UrlRef("", "cdn.example", TRUE, <<"x">>, ""),
   UrlRef("https", "a.example", TRUE, <<"x">>, ""), UrlRef("http", "b.example", TRUE, <<>>, ""),
   UrlRef("mailto", "", FALSE, <<"x@a.example">>, ""), UrlRef("tel", "", FALSE, <<"123">>, ""),
   UrlRef("javascript", "", FALSE, <<"void(0)">>, ""), UrlRef("data", "", FALSE, <<"text/plain,x">>, "")}

Anchor(href) == [href |-> href, text |-> <<"more">>]
Img(src, data_src, data_lazy_src) ==
  [src |-> src, data_src |-> data_src, data_lazy_src |-> data_lazy_src, alt |-> <<"logo">>]

\* pages of up to MaxAnchors anchors, and one with more anchors than scraper_max_links
AnchorLists ==
  UNION {[1..n -> {Anchor(h) : h \in Hrefs}] : n \in 0..MaxAnchors}
  \cup {[i \in 1..(scraper_max_links + 1) |-> Anchor(UrlRef("", "", FALSE, <<"next">>, ""))]}

ImgLists ==
  {<<>>, <<Img(NoRef, NoRef, NoRef), Img(NoRef, UrlRef("", "", FALSE, <<"logo.png">>, ""), NoRef)>>,
   [i \in 1..(max_images + 1) |-> Img(UrlRef("", "", TRUE, <<"i.png">>, ""), NoRef, NoRef)]}

ExtractLinks ==
  /\ probe = NoProbe
  /\ \E anchors \in AnchorLists, imgs \in ImgLists :
       probe' = [fn |-> "extract_links_and_images", anchors |-> anchors, imgs |-> imgs,
                 base_url |-> BaseUrl, result |-> extract_links_and_images(anchors, imgs, BaseUrl)]
  /\ UNCHANGED <<deployment, pages, simps, req, started, served, origin, lastPage>>

NextFns ==
  \/ CheckHostname
  \/ ExtractLinks
  \/ ExtractBlocks
  \/ HashTwoScrapes
  \/ ApplyValidateByMode
  \/ ApplyLanguageOk
  \/ ApplyExtractBestContext

SpecFns == Init /\ [][NextFns]_vars

(***************************************************************************)
(* Properties of the generation loop (SpecLoop)                            *)
(***************************************************************************)
LoopCalls == {r \in Req : req[r].kind = "loop"}

\* what one iteration validates: the parsed value, {} when parsing raised
ParsedObj(raw) == LET p == parse_json_loose(raw) IN IF p.exc = "none" THEN p.val ELSE EmptyDict

LastAttemptPassed(f) == f.ok_schema /\ f.ok_lang

\* C2: a call of the loop with max_retries = n makes at most n+1 model calls and is then
\* over; a further call is pending only while fewer than n+1 were made and only after
\* the attempt before failed validation; the fallback is returned after exactly n+1
\* calls, and while attempts remain a failed attempt is followed by another call.
C2_AtMostNPlusOneCalls ==
  \A r \in LoopCalls :
    LET f == req[r] IN
    /\ f.calls <= f.max_retries + 1
    /\ f.pc = "gen" => f.calls <= f.max_retries
    /\ f.pc = "gen" /\ f.calls >= 1 => ~LastAttemptPassed(f)
    /\ f.pc = "done" /\ f.out.path = "exhausted" => f.calls = f.max_retries + 1
    /\ f.pc = "done" /\ f.out.path = "accepted" => f.calls >= 1
    /\ f.pc # "failed" /\ f.calls >= 1 /\ f.calls <= f.max_retries /\ ~LastAttemptPassed(f) => f.pc = "gen"

\* the default budget: the first attempt failed, one retry was made, and the loop is over
C2_Witness ==
  \E r \in LoopCalls :
    /\ req[r].max_retries = DefaultRetries
    /\ req[r].pc = "done"
    /\ req[r].out.path = "exhausted"
    /\ req[r].calls = 2

\* C3: the loop returns through the accepted path only when the value parsed from the
\* last attempt's text passed the schema validation of the mode and the language check
\* of the requested language; the object returned is that attempt's (normalized) object
\* and the model id returned is the one that attempt's model call reported.
C3_AcceptedOnlyWhenBothChecksPass ==
  \A r \in LoopCalls :
    LET f == req[r] IN
    f.pc = "done" /\ f.out.path = "accepted" =>
      /\ LastAttemptPassed(f)
      /\ f.out.model = f.last_model
      /\ language_ok(f.language, f.out.obj)
      /\ IF f.app = "main"
           THEN LET v == validate_by_mode(f.cur, ensure_dict(ParsedObj(f.last_raw))) IN
                v.ok /\ f.out.obj = v.obj
         ELSE LET v == validate_simplification(ParsedObj(f.last_raw)) IN
              v.exc = "none" /\ v.ok /\ f.out.obj = ParsedObj(f.last_raw)

\* accepted on the retry, for a language whose check can fail, with a model id that
\* differs from the configured default
C3_Witness ==
  \E r \in LoopCalls :
    /\ req[r].pc = "done"
    /\ req[r].out.path = "accepted"
    /\ req[r].language = "zh"
    /\ req[r].calls = 2
    /\ req[r].out.model # get_openai_model

\* C4: when every attempt of generate_mode_output_validated fails validation the function
\* returns, without raising, the object {mode, raw, error}: mode is the requested mode,
\* raw the text of the last attempt, error the non-empty reason of the last attempt.
C4_ExhaustedFallback ==
  \A r \in LoopCalls :
    LET f == req[r]
        last == Attempt(f.app, f.cur, f.language, f.last_raw)
    IN f.app = "main" =>
         /\ f.pc = "failed" => f.exc = "HTTPException" /\ f.status = 502
         /\ f.pc # "failed" /\ f.calls = f.max_retries + 1 /\ ~LastAttemptPassed(f) =>
              f.pc = "done" /\ f.out.path = "exhausted"
         /\ f.pc = "done" /\ f.out.path = "exhausted" =>
              /\ ~LastAttemptPassed(f)
              /\ DOMAIN f.out.obj.d = {"mode", "raw", "error"}
              /\ Get(f.out.obj, "mode") = JStr(<<f.mode>>)
              /\ Get(f.out.obj, "raw") = JRawStr(f.last_raw)
              /\ Get(f.out.obj, "error") = JStr(last.reason)
              /\ last.reason # <<>>
              /\ Truthy(Get(f.out.obj, "error"))
              /\ f.out.model = get_openai_model

\* the model returned {"mode":"easy_read"} on the first attempt and on the retry
C4_Witness ==
  \E r \in LoopCalls :
    /\ req[r].app = "main"
    /\ req[r].mode = "easy_read"
    /\ req[r].max_retries = 1
    /\ req[r].calls = 2
    /\ req[r].last_raw = RawJson(ModeOnly("easy_read"))
    /\ req[r].pc = "done"
    /\ req[r].out.path = "exhausted"
    /\ Get(req[r].out.obj, "error") = JStr(<<"easy_read missing key: ", "about", "; ", "ok">>)

\* C5: whatever text the model returns, the loop does not raise: a call of the loop ends
\* with an exception only when the model call itself raised.
C5_LoopNeverRaises ==
  \A r \in LoopCalls :
    req[r].pc = "failed" => req[r].exc = "HTTPException"

(***************************************************************************)
(* Properties of the request handlers, one request at a time (Spec)        *)
(***************************************************************************)
\* the stored simplification records of one (url, mode, language, source_text_hash)
RecordsOf(url, mode, language, source_text_hash) ==
  {id \in DOMAIN simps : /\ simps[id].url = url /\ simps[id].mode = mode
                         /\ simps[id].language = language
                         /\ simps[id].source_text_hash = source_text_hash}

\* C1: a /simplify request without force_regen for a url, mode, language and text hash
\* that an earlier completed /simplify response already carried is answered from the
\* cache: no generation loop (so no model call) runs for that mode, and the id returned
\* is the one the earlier response returned; the loop runs at most once per mode and request.
C1_SecondRequestServedFromCache ==
  \A r \in Req :
    LET f == req[r] IN
    f.kind = "simplify" =>
      /\ \A m \in DOMAIN f.loops : f.loops[m] = 1
      /\ ~f.force_regen =>
           \A m \in DOMAIN f.prior :
             f.prior[m] # NoId =>
               /\ m \notin DOMAIN f.loops
               /\ m \in DOMAIN f.simpl_ids
               /\ f.simpl_ids[m] = f.prior[m]
               /\ f.simpl_ids[m] = SidOf(f, m)

\* a second request completed from the cache
C1_Witness ==
  \E r \in Req :
    LET f == req[r] IN
    /\ f.kind = "simplify" /\ ~f.force_regen /\ f.pc = "done" /\ f.seq = 2
    /\ \E m \in DOMAIN f.prior : f.prior[m] # NoId /\ f.simpl_ids[m] = f.prior[m]
    /\ f.loops = NoCount
    /\ f.reads >= 1

\* C8: the store holds exactly one page record per url written so far, under
\* page_id_for_url(url), and its blocks, source_text and source_text_hash are those of
\* the most recent write for the url.
C8_OnePageRecordPerUrl ==
  /\ \A id \in DOMAIN pages : id = page_id_for_url(pages[id].url) /\ pages[id].url \in DOMAIN lastPage
  /\ \A u \in DOMAIN lastPage :
       /\ Cardinality({id \in DOMAIN pages : pages[id].url = u}) = 1
       /\ page_id_for_url(u) \in DOMAIN pages
       /\ lastPage[u].page.page_id = page_id_for_url(u)
       /\ pages[page_id_for_url(u)].blocks = lastPage[u].page.blocks
       /\ pages[page_id_for_url(u)].source_text = lastPage[u].page.source_text
       /\ pages[page_id_for_url(u)].source_text_hash = lastPage[u].page.source_text_hash

\* a url scraped twice with changed content
C8_Witness ==
  \E u \in DOMAIN lastPage :
    /\ lastPage[u].writes >= 2
    /\ lastPage[u].prev_hash # lastPage[u].page.source_text_hash
    /\ pages[page_id_for_url(u)].source_text_hash = lastPage[u].page.source_text_hash

\* C9: a /simplify request with force_regen never reads the cache; once it is answered,
\* each mode it handled went through the generation loop once, was written under the
\* deterministic id of the tuple (the id an earlier response returned, if there was one),
\* and the store holds exactly one record for the tuple, which holds this request's output.
C9_ForceRegenBypassesCache ==
  \A r \in Req :
    LET f == req[r] IN
    f.kind = "simplify" /\ f.force_regen =>
      /\ f.reads = 0
      /\ \A m \in DOMAIN f.simpl_ids :
           f.simpl_ids[m] # NoId =>
             /\ m \in DOMAIN f.loops /\ f.loops[m] = 1
             /\ m \in DOMAIN f.wrote
             /\ f.simpl_ids[m] = SidOf(f, m)
             /\ f.prior[m] # NoId => f.simpl_ids[m] = f.prior[m]
             /\ RecordsOf(f.page.url, m, f.language, f.page.source_text_hash) = {f.simpl_ids[m]}
             /\ simps[f.simpl_ids[m]].output = f.outputs[m]
             /\ simps[f.simpl_ids[m]].updated_at = f.seq

\* a forced request answered although an earlier response had left a record for the tuple
C9_Witness ==
  \E r \in Req :
    LET f == req[r] IN
    /\ f.kind = "simplify" /\ f.force_regen /\ f.pc = "done" /\ f.seq = 2
    /\ \E m \in DOMAIN f.prior :
         /\ f.prior[m] # NoId
         /\ f.simpl_ids[m] = f.prior[m]
         /\ simps[f.simpl_ids[m]].updated_at = 2

\* C10: every simplification record stored with status "success" and error null was
\* written from a result the loop returned through the accepted path.
C10_StoredOnlyAfterAccepted ==
  \A id \in DOMAIN simps :
    simps[id].status = "success" /\ simps[id].error = None => origin[id].path = "accepted"

(***************************************************************************)
(* Two concurrent /simplify requests (SpecConc)                            *)
(***************************************************************************)
SameTuple(f, g) ==
  /\ f.page.url = g.page.url /\ f.mode = g.mode /\ f.language = g.language
  /\ f.page.source_text_hash = g.page.source_text_hash

Answered(r) == req[r].kind = "simplify" /\ req[r].pc = "done"

\* C6: under every interleaving of two /simplify requests for one url, mode and language,
\* every stored record lies under the deterministic id of its tuple, no tuple has two
\* records, every record is field for field what the request that wrote it last passed to
\* save_simplification, and two answered requests of one tuple return the same id.
C6_ConcurrentWritesLeaveOneRecord ==
  /\ \A id \in DOMAIN simps :
       LET d == simps[id] IN
       /\ id = simplification_id_for(d.url, S(d.mode), S(d.language), d.source_text_hash)
       /\ RecordsOf(d.url, d.mode, d.language, d.source_text_hash) = {id}
       /\ id \in DOMAIN origin
       /\ d.mode \in DOMAIN req[origin[id].by].wrote
       /\ d = req[origin[id].by].wrote[d.mode]
  /\ \A r1 \in Req, r2 \in Req :
       Answered(r1) /\ Answered(r2) /\ SameTuple(req[r1], req[r2]) =>
         /\ req[r1].simpl_ids[req[r1].mode] = req[r2].simpl_ids[req[r2].mode]
         /\ RecordsOf(req[r1].page.url, req[r1].mode, req[r1].language, req[r1].page.source_text_hash)
              = {req[r1].simpl_ids[req[r1].mode]}

\* both requests missed the cache, both generated and both wrote, with different results
C6_Witness ==
  /\ Answered("r1") /\ Answered("r2") /\ SameTuple(req["r1"], req["r2"])
  /\ ~req["r1"].force_regen /\ ~req["r2"].force_regen
  /\ req["r1"].reads = 1 /\ req["r2"].reads = 1
  /\ "easy_read" \in DOMAIN req["r1"].wrote /\ "easy_read" \in DOMAIN req["r2"].wrote
  /\ req["r1"].wrote["easy_read"].output # req["r2"].wrote["easy_read"].output

(***************************************************************************)
(* simplification_id_for (SpecIds)                                         *)
(***************************************************************************)
\* C7: for two argument tuples (url, mode, language, source_text_hash) the '|'-joined
\* key strings are equal exactly when the tuples are equal, and so are the ids: the id
\* is a function of the four arguments alone and changes iff one of them changes.
C7_IdChangesIffInputChanges ==
  probe.fn = "simplification_id_for" =>
    /\ (probe.key1 = probe.key2) <=> (probe.t1 = probe.t2)
    /\ (probe.id1 = probe.id2) <=> (probe.t1 = probe.t2)
    /\ probe.id1 = simplification_id_for(probe.t1.url, probe.t1.mode, probe.t1.language,
                                         probe.t1.source_text_hash)

\* two tuples that differ in the mode only, with a url that contains the separator
C7_Witness ==
  /\ probe.fn = "simplification_id_for"
  /\ probe.t1.mode # probe.t2.mode
  /\ [probe.t1 EXCEPT !.mode = probe.t2.mode] = probe.t2
  /\ \E i \in 1..Len(probe.t1.url) : probe.t1.url[i] = Sep
  /\ probe.id1 # probe.id2

(***************************************************************************)
(* Properties of the scrape flow (Spec)                                    *)
(***************************************************************************)
\* C11: every host an outbound request of the fetch was sent to, the host of the
\* requested url and the host of every redirect target, was accepted by
\* assert_public_hostname before.
C11_EveryOutboundRequestGuarded ==
  \A r \in Req : req[r].hops \subseteq req[r].guarded

\* C13: the status fetch_and_parse_html raised with is the status scrape_url fails with:
\* 413 for a body over the cap, 415 for a content type that is not HTML, 502 for a
\* transport error or a non-2xx upstream status.
C13_FetchErrorKindReachesCaller ==
  \A r \in Req :
    req[r].pc = "failed" /\ req[r].fetch_status \in {413, 415, 502} =>
      req[r].status = req[r].fetch_status

FailsInScrape(r) == req[r].pc \in {"scrape", "fetch"} /\ req'[r].pc = "failed"

\* C14: the step in which the hostname guard rejects or the fetch fails ends the request
\* with that error (400 or 502) and changes neither collection; the request has made no
\* cache lookup, entered no generation loop, made no model call and written no record,
\* and once failed it does nothing more.
C14_FailedScrapeChangesNothing ==
  [][\A r \in Req :
       /\ FailsInScrape(r) =>
            /\ pages' = pages /\ simps' = simps /\ lastPage' = lastPage /\ origin' = origin
            /\ req'[r].status \in {400, 502}
            /\ req'[r].exc = "HTTPException"
            /\ req'[r].reads = 0 /\ req'[r].calls = 0
            /\ req'[r].loops = NoCount /\ req'[r].wrote = EmptyFcn
            /\ req'[r].page = NoPage
       /\ req[r].pc = "failed" /\ req[r].page = NoPage /\ req'[r].seq = req[r].seq =>
            req'[r] = req[r]]_vars

\* a /simplify request rejected or failed in the scrape while the store held records
C14_Witness ==
  \E r \in Req :
    /\ req[r].kind = "simplify" /\ req[r].pc = "failed" /\ req[r].page = NoPage
    /\ req[r].status \in {400, 502}
    /\ req[r].calls = 0 /\ req[r].reads = 0
    /\ DOMAIN pages # {} /\ DOMAIN simps # {}

\* C15: a request does not fail because save_page raised: no request ends with the
\* store's exception while its pending write is the page record.
C15_SavePageFailureSwallowed ==
  \A r \in Req :
    req[r].exc = "StoreError" /\ req[r].pend.col = "pages" => req[r].pc # "failed"

(***************************************************************************)
(* Properties of the pure functions (SpecFns)                              *)
(***************************************************************************)
\* an address none of the six blocked properties holds for
PublicAddress(ip) == ip.parses /\ ip.flags = {}

\* C12: assert_public_hostname accepts a hostname exactly when it is not on the denylist
\* (whatever its letter case), resolution gave at least one address and every resolved
\* address is public; so one blocked address among public ones is enough to reject.
\* A rejection is a 400.
C12_GuardAcceptsIffAllPublic ==
  probe.fn = "assert_public_hostname" =>
    /\ ~probe.result.raised <=>
         /\ \A b \in BLOCKED_HOSTS : Lower(probe.hostname) # Lower(b)
         /\ ~probe.dns.gaierror
         /\ probe.dns.ips # {}
         /\ \A ip \in probe.dns.ips : PublicAddress(ip)
    /\ probe.result.raised => probe.result.status_code = 400

\* a name off the denylist that resolves to one public and one link-local address
C12_Witness ==
  /\ probe.fn = "assert_public_hostname"
  /\ probe.hostname = "a.example"
  /\ \E p \in probe.dns.ips : PublicAddress(p)
  /\ \E q \in probe.dns.ips : "is_link_local" \in q.flags
  /\ probe.result.raised

\* the required fields of each mode's schema
RequiredFields(mode) ==
  CASE mode = "easy_read" -> {"about", "key_points", "sections", "important_links", "warnings", "glossary"}
    [] mode = "checklist" -> {"goal", "requirements", "documents", "fees", "deadlines", "actions",
                              "common_mistakes"}
    [] mode = "step_by_step" -> {"goal", "steps", "finish_check"}

\* the list-typed fields of each mode's schema
ListFields(mode) ==
  CASE mode = "easy_read" -> {"key_points", "sections", "important_links", "warnings", "glossary"}
    [] mode = "checklist" -> {"requirements", "documents", "fees", "deadlines", "actions", "common_mistakes"}
    [] mode = "step_by_step" -> {"steps", "finish_check"}

\* C16: validate_by_mode returns ok = false for every object that lacks one of the required
\* fields of the mode, and ok = true for a minimal object that has them all with the
\* right types.
C16_MissingRequiredFieldRejected ==
  probe.fn = "validate_by_mode" =>
    /\ (\E k \in RequiredFields(probe.mode) : ~Has(probe.obj, k)) => ~probe.result.ok
    /\ probe.variant = "minimal" => probe.result.ok

\* C17: validate_by_mode returns ok = false, with a reason that names the field, whenever
\* a list-typed field of the mode's schema holds a value that is not a list.
C17_NonListFieldRejected ==
  probe.fn = "validate_by_mode" =>
    \A k \in ListFields(probe.mode) :
      Has(probe.obj, k) /\ ~IsList(Get(probe.obj, k)) =>
        /\ ~probe.result.ok
        /\ \E i \in 1..Len(probe.result.reason) : probe.result.reason[i] = k

RECURSIVE StringValues(_)
\* the string values of a JSON value, at any depth
StringValues(x) ==
  CASE x.t = "str" -> {x.s}
    [] x.t = "list" -> UNION {StringValues(x.l[i]) : i \in 1..Len(x.l)}
    [] x.t = "dict" -> UNION {StringValues(x.d[k]) : k \in DOMAIN x.d}
    [] OTHER -> {}

Contains(text, unit) == \E i \in 1..Len(text) : text[i] = unit

\* C18: language_ok is true for "en" whatever the object; for "zh" iff some string value
\* holds a character of U+4E00..U+9FFF; for "ta" iff some string value holds a character of
\* U+0B80..U+0BFF; for "ms" false when the values hold no alphabetic word, and otherwise
\* true iff Malay marker hits >= 2 or (common English hits <= 3 and words >= 8).
C18_LanguageHeuristic ==
  probe.fn = "language_ok" =>
    LET words == WordsOf(flatten_text(probe.obj)) IN
    /\ probe.lang = "en" => probe.result
    /\ probe.lang = "zh" => (probe.result <=> \E v \in StringValues(probe.obj) : Contains(v, "CJK"))
    /\ probe.lang = "ta" => (probe.result <=> \E v \in StringValues(probe.obj) : Contains(v, "TAMIL"))
    /\ probe.lang = "ms" /\ words = <<>> => ~probe.result
    /\ probe.lang = "ms" /\ words # <<>> =>
         (probe.result <=> \/ Hits(words, MALAY_HINT_WORDS) >= 2
                           \/ (Hits(words, COMMON_EN_WORDS) <= 3 /\ Len(words) >= 8))

\* ten common English words and no Malay marker, checked for Malay
C18_Witness ==
  /\ probe.fn = "language_ok"
  /\ probe.lang = "ms"
  /\ LET words == WordsOf(flatten_text(probe.obj)) IN
       /\ Len(words) = 10
       /\ Hits(words, COMMON_EN_WORDS) = 10
       /\ Hits(words, MALAY_HINT_WORDS) = 0
  /\ ~probe.result

\* the positions of the sections entries that are objects with a non-empty heading equal to
\* section_id once both are trimmed and lower-cased
SectionsNamed(section_id, simpl_output) ==
  IF IsDict(simpl_output) /\ IsList(Get(simpl_output, "sections"))
  THEN LET sections == Get(simpl_output, "sections").l IN
       {i \in 1..Len(sections) :
          /\ IsDict(sections[i])
          /\ Truthy(Get(sections[i], "heading"))
          /\ LowerChars(Strip(StrOrEmpty(Get(sections[i], "heading")))) = LowerChars(Strip(section_id))}
  ELSE {}

FocusFields ==
  [section_text |-> {"section_text"}, section_id |-> {"section_heading", "section_bullets"},
   page_fallback |-> {"simplified", "source_text"}]

\* C19: _extract_best_context yields exactly one focus in strict priority: "section_text"
\* whenever section_text is non-blank, whatever section_id is; otherwise "section_id" when
\* section_id is given and an entry of the sections list has a heading equal to it after
\* trimming and case-folding, the first such entry in list order being the one used;
\* otherwise "page_fallback" with the whole simplified output and a slice of the source text.
C19_OneFocusInPriorityOrder ==
  probe.fn = "_extract_best_context" =>
    LET ctx == probe.result
        blank == ~probe.section_text.some \/ Strip(probe.section_text.v) = <<>>
        named == IF probe.section_id.some /\ probe.section_id.v # <<>>
                   THEN SectionsNamed(probe.section_id.v, probe.simpl_output) ELSE {}
        sections == Get(probe.simpl_output, "sections").l
    IN
    /\ ctx.focus \in DOMAIN FocusFields
    /\ \A f \in DOMAIN FocusFields :
         f # ctx.focus => FocusFields[f] \cap DOMAIN ctx = {}
    /\ FocusFields[ctx.focus] \subseteq DOMAIN ctx
    /\ ~blank => ctx.focus = "section_text" /\ ctx.section_text = Strip(probe.section_text.v)
    /\ blank /\ named # {} =>
         /\ ctx.focus = "section_id"
         /\ \E i \in named :
              /\ \A j \in named : i <= j
              /\ ctx.section_heading = StrOrEmpty(Get(sections[i], "heading"))
              /\ IsList(Get(sections[i], "bullets")) =>
                   /\ Len(ctx.section_bullets.l) <= max_bullets
                   /\ ctx.section_bullets.l = SubSeq(Get(sections[i], "bullets").l, 1, Len(ctx.section_bullets.l))
    /\ blank /\ named = {} =>
         /\ ctx.focus = "page_fallback"
         /\ ctx.simplified = probe.simpl_output
         /\ Len(ctx.source_text) <= Len(probe.source_text)
         /\ ctx.source_text = SubSeq(probe.source_text, 1, Len(ctx.source_text))

\* blank section text, a section id that two entries match: the first one was used
C19_Witness ==
  /\ probe.fn = "_extract_best_context"
  /\ probe.section_text.some /\ probe.section_text.v # <<>> /\ Strip(probe.section_text.v) = <<>>
  /\ probe.section_id.some
  /\ Cardinality(SectionsNamed(probe.section_id.v, probe.simpl_output)) = 2
  /\ probe.result.focus = "section_id"
  /\ probe.result.section_bullets = JList(<<Bullet("first")>>)

\* the step of request r changes neither collection and r ends failed with this status,
\* having sent no request to a page host, called no model and prepared no write
FailsUntouched(r, status) ==
  /\ req'[r].pc = "failed" /\ req'[r].status = status
  /\ pages' = pages /\ simps' = simps
  /\ req'[r].guarded = {} /\ req'[r].hops = {}
  /\ req'[r].calls = 0 /\ req'[r].loops = NoCount
  /\ req'[r].pend = NoPend /\ DOMAIN req'[r].wrote = {}

\* the first step of a /chat request and the step after its scrape
ChatEntryStep(r) ==
  LET f == req[r] IN
  /\ f.kind = "chat" /\ f.pc = "chat" /\ req'[r] # f =>
       /\ f.url = NoId /\ f.page_id = NoId => FailsUntouched(r, 400)
       /\ f.url = NoId /\ f.page_id # NoId /\ f.page_id \notin DOMAIN pages => FailsUntouched(r, 404)
       /\ f.url # NoId /\ page_id_for_url(f.url) \notin DOMAIN pages =>
            req'[r].pc = "scrape" /\ req'[r].url = f.url
  /\ f.kind = "chat" /\ f.pc = "chat_reload" /\ req'[r] # f =>
       /\ page_id_for_url(f.url) \in DOMAIN pages
       /\ req'[r].pc = "chat_simpl"
       /\ req'[r].page.source_text = pages[page_id_for_url(f.url)].source_text

\* C20: a /chat request that gives only a page_id for which no page record exists fails
\* with 404, and one that gives neither url nor page_id fails with 400; in both cases
\* nothing is scraped, no model is called and nothing is written to the store. When the
\* page is absent but a url is given, the page is scraped and the request proceeds.
C20_ChatWithoutPage == [][\A r \in Req : ChatEntryStep(r)]_vars

\* a request with only the id of a page that is not stored has failed with 404, after an
\* earlier request with a url had its page scraped and stored
C20_Witness ==
  /\ req["r1"].kind = "chat" /\ req["r1"].pc = "failed" /\ req["r1"].status = 404
  /\ req["r1"].url = NoId /\ req["r1"].page_id = page_id_for_url(UrlB)
  /\ DOMAIN pages = {page_id_for_url(UrlA)}
  /\ DOMAIN simps # {}

\* C21: the content hash is computed over exactly the truncated linearized text: in every
\* page record written by scrape_url, source_text_hash is SHA-256 of the record's
\* source_text, and the source text handed to the model by simplify and chat is that same
\* source_text, so the cache key describes what the model saw.
C21_HashOverModelInput ==
  /\ \A id \in DOMAIN pages :
       "source_text" \in DOMAIN pages[id] =>
         /\ pages[id].source_text = blocks_to_text(pages[id].blocks)
         /\ pages[id].source_text_hash = sha256_hex(pages[id].source_text)
  /\ \A r \in Req :
       LET f == req[r] IN
       f.kind \in {"simplify", "chat"} /\ f.messages # <<>> =>
         LET seen == f.messages[2].source_text IN
         /\ seen = f.page.source_text
         /\ f.page.source_text_hash = sha256_hex(seen)
         /\ f.pend.col = "simplifications" =>
              /\ f.pend.data.source_text_hash = sha256_hex(seen)
              /\ f.pend.id = simplification_id_for(f.pend.data.url, S(f.cur), S(f.language), sha256_hex(seen))

\* a /chat request is about to store the output it generated from the stored page, after a
\* /simplify request was answered
C21_Witness ==
  /\ req["r1"].kind = "chat"
  /\ req["r1"].pend.col = "simplifications"
  /\ req["r1"].messages # <<>>
  /\ req["r1"].page.page_id \in DOMAIN pages
  /\ served # {}

\* C22: source_text_hash changes if and only if the content of the page changes: two
\* scrapes whose block sequences differ in any content (table rows, a code block, a list
\* item after the twelfth, a block past the character budget) get different hashes, and
\* two scrapes with identical block sequences get the same hash.
C22_HashChangesIffContentChanges ==
  probe.fn = "blocks_to_text" =>
    (probe.hash1 = probe.hash2 <=> probe.blocks1 = probe.blocks2)

\* C23: the blocks returned by extract_blocks_in_order are in document order (an
\* order-preserving subsequence of the block-level elements under the root), and no two
\* adjacent blocks of the output have identical (type, level, text, items).
C23_DocumentOrderNoAdjacentDuplicates ==
  probe.fn = "extract_blocks_in_order" =>
    LET out == probe.result IN
    /\ \A i \in 1..Len(out) :
         /\ out[i].pos \in 1..Len(probe.candidates)
         /\ <<out[i]>> = ElementBlocks(probe.candidates[out[i].pos], out[i].pos)
    /\ \A i \in 1..Len(out), j \in 1..Len(out) : i < j => out[i].pos < out[j].pos
    /\ \A i \in 1..(Len(out) - 1) :
         <<out[i].type, out[i].level, out[i].text, out[i].items>>
           # <<out[i + 1].type, out[i + 1].level, out[i + 1].text, out[i + 1].items>>

\* three equal paragraphs in a row collapsed to one block
C23_Witness ==
  /\ probe.fn = "extract_blocks_in_order"
  /\ Len(probe.candidates) = 3
  /\ \A i \in 1..3 : probe.candidates[i] = Element("p", <<"a">>, <<>>, 0, <<>>, <<>>)
  /\ Len(probe.result) = 1 /\ probe.result[1].pos = 1

\* C28: the consecutive-duplicate pass removes a block only when it is identical in every
\* field (type, level, depth, text, items, headers, rows) to the block kept immediately
\* before it; two adjacent tables with different headers or rows, and two adjacent lists
\* with different depth, are both kept.
C28_OnlyFullDuplicatesRemoved ==
  probe.fn = "extract_blocks_in_order" =>
    LET kept == {probe.result[i].pos : i \in 1..Len(probe.result)} IN
    \A k \in 1..Len(probe.emitted) :
      LET b == probe.emitted[k] IN
      b.pos \notin kept =>
        \E i \in 1..Len(probe.result) :
          LET c == probe.result[i] IN
          /\ c.pos < b.pos
          /\ \A j \in 1..Len(probe.result) : probe.result[j].pos < b.pos => probe.result[j].pos <= c.pos
          /\ [b EXCEPT !.pos = c.pos] = c

\* C24: extract_links_and_images returns no link whose href is a mailto: link, a
\* javascript: link or a fragment-only link ('#...'); every returned href is absolute;
\* is_internal is true if and only if the resolved link's network authority equals the
\* base URL's; the links never exceed max_links nor the images max_images.
C24_LinksFilteredAndClassified ==
  probe.fn = "extract_links_and_images" =>
    LET links == probe.result.links IN
    /\ \A i \in 1..Len(links) :
         LET given == probe.anchors[links[i].pos].href IN
         /\ given.scheme \notin {"mailto", "javascript"}
         /\ ~(given.scheme = "" /\ given.netloc = "" /\ ~given.rooted /\ given.path = <<>>
              /\ given.fragment # "")
         /\ links[i].href.scheme # ""
         /\ links[i].is_internal <=> (links[i].href.netloc = probe.base_url.netloc)
    /\ Len(links) <= scraper_max_links
    /\ Len(probe.result.images) <= max_images

\* C25: when the raw text of an attempt cannot be parsed as JSON, the loop records an
\* invalid-JSON reason: the reason named in the corrective retry message of that attempt
\* and, after exhaustion, the error field of the fallback object say that the output was
\* invalid JSON.
C25_InvalidJsonReasonReported ==
  \A r \in Req :
    LET f == req[r] IN
    f.kind = "loop" /\ f.calls > 0 /\ parse_json_loose(f.last_raw).exc # "none" =>
      /\ f.pc = "gen" =>
           LET m == f.messages[Len(f.messages)] IN
           m.kind = "corrective" /\ Head(m.problems) = "Invalid JSON: "
      /\ f.pc = "done" /\ f.out.path = "exhausted" =>
           Head(Get(f.out.obj, "error").s) = "Invalid JSON: "

\* C26: _fetch_image_as_data_url checks the hostname of every URL it requests, the
\* original one and each redirect target, with assert_public_hostname before the request
\* is sent, never lets the HTTP client follow a redirect by itself, sends at most 5
\* requests, and fails with 'Too many redirects' when the fifth response is still a redirect.
C26_EveryImageHopGuarded ==
  probe.fn = "_fetch_image_as_data_url" =>
    /\ \A i \in 1..Len(probe.sent) : probe.sent[i].checked /\ probe.sent[i].host # ""
    /\ Len(probe.sent) <= 5
    /\ Len(probe.sent) <= probe.rounds
    /\ Len(probe.sent) = 5 /\ probe.response = "redirect" =>
         /\ probe.pc = "failed" /\ probe.status = 400
         /\ probe.detail = "Too many redirects fetching image"

\* five requests went to more than one host and the fifth was answered by a redirect
C26_Witness ==
  /\ probe.fn = "_fetch_image_as_data_url"
  /\ Len(probe.sent) = 5
  /\ probe.response = "redirect"
  /\ Cardinality({probe.sent[i].host : i \in 1..5}) > 1
  /\ probe.pc = "failed"

\* C27: for every interleaving of get_or_create_page and save_page on the same URL, a page
\* record that has reached status 'ready' never goes back to status 'placeholder'.
C27_ReadyNeverBackToPlaceholder ==
  [][\A id \in DOMAIN pages :
       pages[id].status = "ready" => id \in DOMAIN pages' /\ pages'[id].status = "ready"]_vars

\* C29: in /simplify with mode 'all' the modes are handled in the fixed order easy_read,
\* checklist, step_by_step; a transport or HTTP failure of the model call is not retried
\* by the loop and fails the whole request, and the simplification records already written
\* for the earlier modes of that request stay in the store.
C29_AllModesInOrderNotAtomic ==
  \A r \in Req :
    LET f == req[r]
        done == DOMAIN f.outputs
    IN f.kind = "simplify" /\ f.mode = "all" /\ f.page # NoPage =>
         /\ \E k \in 0..Len(MainModes) :
              /\ done = {MainModes[i] : i \in 1..k}
              /\ f.cur # "none" => f.cur \in {MainModes[i] : i \in 1..Min(k + 1, Len(MainModes))}
         /\ f.exc = "HTTPException" /\ f.cur # "none" =>
              /\ f.pc = "failed"
              /\ f.cur \notin done
         /\ \A m \in DOMAIN f.wrote :
              /\ SidOf(f, m) \in DOMAIN simps
              /\ simps[SidOf(f, m)].output = f.wrote[m].output

\* the model call for the second or third mode failed after a record was written for an
\* earlier mode, which is still stored
C29_Witness ==
  /\ req["r1"].kind = "simplify" /\ req["r1"].mode = "all"
  /\ req["r1"].pc = "failed" /\ req["r1"].exc = "HTTPException"
  /\ req["r1"].cur \in {"checklist", "step_by_step"}
  /\ "easy_read" \in DOMAIN req["r1"].wrote
  /\ SidOf(req["r1"], "easy_read") \in DOMAIN simps

\* C30: the simplification output that /chat uses as context always belongs to the
\* request's page, mode and language: a record named by a caller-supplied
\* simplification_id is used only if it was generated for the resolved page and for the
\* requested mode and language.
C30_ChatContextBelongsToRequest ==
  \A r \in Req :
    LET f == req[r] IN
    /\ f.kind = "chat" /\ f.pc \in {"chat_answer", "done"}
    /\ f.simpl_output # JNull /\ f.simpl_id \in DOMAIN simps
    => /\ simps[f.simpl_id].page_id = f.page.page_id
       /\ simps[f.simpl_id].mode = f.mode
       /\ simps[f.simpl_id].language = f.language

====
